---- MODULE Spec2Model ----
(***************************************************************************)
(* TODO web service: request validation (todo_models.py), the repository   *)
(* (todo_repository.py), the session provider (utils/db_connection.py),    *)
(* the HTTP endpoints and the lifespan (app.py), and database              *)
(* initialisation (utils/db_init.py).                                      *)
(*                                                                         *)
(* Python's None is the empty sequence None; an Optional value x is the    *)
(* one-element sequence <<x>>.  A str that the code inspects (a title) is  *)
(* a sequence of one-character strings; other strings are atoms.           *)
(***************************************************************************)
EXTENDS Integers, Sequences, FiniteSets, TLC

\* ------------------------------------------------------------------ bounds
\* Highest TODO id a run creates or addresses.
MaxId == 2
\* Number of clock readings (row timestamps) in a run.
MaxTime == 3
\* Clock readings per second of SQLite's datetime('now').
TicksPerSecond == 2
\* Engine constructions in a run of the session provider on its own.
MaxEngines == 3
\* Tasks that use the session provider at the same time in such a run.
MaxTasks == 2
\* Calls of run_migrations in a run of the migration runner on its own.
MaxRuns == 2

\* ------------------------------------------------------- program constants
TitleMinLength == 1
TitleMaxLength == 255
PriorityMin == 0
PriorityMax == 4

None == <<>>
Some(x) == <<x>>

\* ------------------------------------------------------------------ strings
Rep(c, n) == [i \in 1..n |-> c]

Whitespace == {" ", "\t", "\n"}

SetMax(S) == CHOOSE x \in S : \A y \in S : x >= y

RECURSIVE LStrip(_), RStrip(_)
\* str.lstrip(): the string from its first character that is not whitespace.
LStrip(s) == IF s = <<>> \/ Head(s) \notin Whitespace THEN s ELSE LStrip(Tail(s))

\* str.rstrip(): the string up to its last character that is not whitespace.
RStrip(s) ==
    IF s = <<>> \/ s[Len(s)] \notin Whitespace THEN s ELSE RStrip(SubSeq(s, 1, Len(s) - 1))

\* str.strip(): the string without its leading and trailing whitespace.
Strip(s) == RStrip(LStrip(s))

\* --------------------------------------------------------------- the inputs
TitleA == <<"a">>
TitleB == <<"b">>
TitlePadded == <<" ", "a", "\t">>
TitlePaddedB == <<" ", "b">>
TitleEmpty == <<>>
TitleBlank == <<" ", "\t">>
TitleTooLong == Rep("x", TitleMaxLength + 1)
TitleLongPadded == Rep("x", TitleMaxLength - 1) \o <<" ">>

PayloadEmpty == {}
PayloadOne == {<<"k", "v1">>}
PayloadTwo == {<<"k", "v2">>, <<"n", "3">>}

BaseCreate ==
    [title |-> TitleA, description |-> None, priority |-> 2,
     due_date |-> None, payload |-> None]

\* Bodies of POST /api/todo, parsed from JSON, before validation.
CreateBodies ==
    {[BaseCreate EXCEPT !.title = t] :
        t \in {TitlePadded, TitleEmpty, TitleBlank, TitleTooLong, TitleLongPadded}}
    \cup {[BaseCreate EXCEPT !.priority = p] : p \in {PriorityMin - 1, PriorityMax + 1}}
    \cup {[title |-> TitleB, description |-> Some("d1"), priority |-> PriorityMax,
           due_date |-> Some("2025-01-01T00:00:00Z"), payload |-> Some(PayloadOne)]}

\* The bodies of the runs that inject faults.
FaultCreateBodies ==
    {[BaseCreate EXCEPT !.title = t] : t \in {TitlePadded, TitleBlank}}
    \cup {[BaseCreate EXCEPT !.priority = PriorityMax + 1]}

\* sent_null: the keys the JSON body carries with the value null.  TodoUpdate
\* gives a field None both when its key is absent and when its value is null.
BaseUpdate ==
    [title |-> None, description |-> None, completed |-> None, priority |-> None,
     due_date |-> None, payload |-> None, sent_null |-> {}]

\* editTodo of the TODO page with the description and payload prompts emptied:
\* {title: ..., description: null, payload: null}.
EditFormEmptied ==
    [BaseUpdate EXCEPT !.title = Some(TitleA), !.sent_null = {"description", "payload"}]

\* A body whose every field is null.
AllNullUpdate ==
    [BaseUpdate EXCEPT !.sent_null = {"title", "description", "completed", "priority",
                                      "due_date", "payload"}]

\* Bodies of PUT /api/todo/{id}, parsed from JSON, before validation.
UpdateBodies ==
    {BaseUpdate, AllNullUpdate}
    \cup {[BaseUpdate EXCEPT !.title = Some(t)] :
            t \in {TitlePaddedB, TitleEmpty, TitleBlank, TitleTooLong}}
    \cup {[BaseUpdate EXCEPT !.priority = Some(PriorityMax + 1)],
          [BaseUpdate EXCEPT !.description = Some("d2"),
                             !.due_date = Some("2026-06-30T12:00:00Z")],
          [BaseUpdate EXCEPT !.payload = Some(PayloadEmpty)],
          EditFormEmptied,
          [BaseUpdate EXCEPT !.completed = Some(TRUE), !.priority = Some(PriorityMin),
                             !.payload = Some(PayloadTwo)]}

FaultUpdateBodies ==
    {[BaseUpdate EXCEPT !.title = Some(TitlePaddedB)],
     [BaseUpdate EXCEPT !.priority = Some(PriorityMax + 1)],
     [BaseUpdate EXCEPT !.completed = Some(TRUE), !.priority = Some(PriorityMin),
                        !.payload = Some(PayloadTwo)]}

\* Query parameters of GET /api/todo.
ListQueries ==
    [completed : {None, Some(TRUE), Some(FALSE)},
     priority : {None, Some(PriorityMin), Some(PriorityMax + 1)}]

FaultListQueries == [completed : {None}, priority : {None, Some(PriorityMax + 1)}]

TodoIds == 1..MaxId

Tasks == 1..MaxTasks

\* Where a repository call can raise: constructing the engine, executing the
\* statement, committing the session.
Faults == {"none", "engine", "execute", "commit"}

Backends == {"postgresql", "sqlite"}

VARIABLES
    backend,                \* the configured database backend
    phase,                  \* lifespan: created, starting, serving, stopped
    init_calls,             \* invocations of init_database
    migration,              \* run_migrations: none, running, done, failed
    db_ready,               \* the todos table exists with all its columns
    async_engine,           \* _async_engine: None or Some(engine)
    async_session_factory,  \* _async_session_factory: None or Some(engine it binds)
    engines_created,        \* engines constructed so far
    built_since_close,      \* engines constructed since the last close_async_engine
    provider_called,        \* get_async_engine or get_async_session has been called
    sessions,               \* task -> the engine of the session it holds, or None
    todos,                  \* the todos table: id -> row
    seq,                    \* PostgreSQL: last value of the id sequence
    clock,                  \* the time the next clock reading yields
    deleted,                \* ids a DELETE has answered 204 for
    resp,                   \* the latest request and its response
    alembic_version,        \* the alembic_version row: None or Some(revision)
    db_objects,             \* the schema: the table, indexes and columns that exist
    run,                    \* the latest call of run_migrations
    elapsed,                \* the durations time.time() measures, in microseconds
    inflight,               \* task -> the request it is handling, step by step
    call,                   \* the latest call of a configuration function
    disk                    \* the files under WORKSPACE_DIR, as resolved paths

vars == <<backend, phase, init_calls, migration, db_ready, async_engine,
          async_session_factory, engines_created, built_since_close, provider_called,
          sessions, todos, seq, clock, deleted, resp, alembic_version, db_objects, run,
          elapsed, inflight, call, disk>>

lifeVars == <<phase, init_calls, migration>>
engineVars == <<async_engine, async_session_factory, engines_created, built_since_close,
                provider_called>>
dbVars == <<todos, seq, clock, deleted>>
schemaVars == <<alembic_version, db_objects, run>>

\* A task that handles no request.  existed: the addressed TODO was stored
\* when the request arrived; concurrent: another request was being handled
\* during this one; peak: the most sessions the request had open at once.
Idle ==
    [pc |-> "idle", op |-> "none", id |-> 0, body |-> None, row |-> None,
     status |-> 0, holds |-> None, existed |-> FALSE, concurrent |-> FALSE,
     peak |-> 0]

\* A request that reaches no repository function.
NoWork == [calls |-> 0, sessions |-> 0, statements |-> 0]

\* No session was entered.
NoSession == [entered |-> FALSE, commits |-> 0, rollbacks |-> 0, reraised |-> None]

NoResp ==
    [op |-> "none", id |-> 0, body |-> None, status |-> 0, todo |-> None,
     items |-> <<>>, detail |-> <<>>, raised |-> None, escaped |-> FALSE,
     engine |-> None, headers |-> None, work |-> NoWork, session |-> NoSession]

\* -------------------------------------------------------------- todo_models
\* A mutant of validate_title: the value is returned as received.
validate_title_unstripped(v) == v

\* TodoCreate.validate_title / TodoUpdate.validate_title: the stripped title.
validate_title(v) == Strip(v)

\* A mutant of TodoCreateValid: the whitespace-only check is missing.
TodoCreateValidNoBlankCheck(body) ==
    /\ Len(body.title) >= TitleMinLength
    /\ Len(body.title) <= TitleMaxLength
    /\ body.priority >= PriorityMin
    /\ body.priority <= PriorityMax

\* TodoCreate accepts the body: the Field constraints, then validate_title.
TodoCreateValid(body) ==
    /\ Len(body.title) >= TitleMinLength
    /\ Len(body.title) <= TitleMaxLength
    /\ body.priority >= PriorityMin
    /\ body.priority <= PriorityMax
    /\ Strip(body.title) # <<>>

\* The validated TodoCreate model.
TodoCreate(body) == [body EXCEPT !.title = validate_title(body.title)]

\* TodoUpdate accepts the body.
TodoUpdateValid(body) ==
    /\ body.title # None =>
         /\ Len(body.title[1]) >= TitleMinLength
         /\ Len(body.title[1]) <= TitleMaxLength
         /\ Strip(body.title[1]) # <<>>
    /\ body.priority # None =>
         /\ body.priority[1] >= PriorityMin
         /\ body.priority[1] <= PriorityMax

\* The validated TodoUpdate model: `v.strip() if v else None`.
TodoUpdate(body) ==
    [body EXCEPT !.title = IF body.title = None \/ body.title[1] = <<>>
                           THEN None
                           ELSE Some(validate_title(body.title[1]))]

\* Query(None, ge=0, le=4) of list_todos_endpoint.
ListQueryValid(q) ==
    q.priority # None =>
        /\ q.priority[1] >= PriorityMin
        /\ q.priority[1] <= PriorityMax

\* -------------------------------------------------------------- exceptions
ConfigError == [type |-> "ValueError", msg |-> "Database configuration not found"]
NoTableError == [type |-> "SQLAlchemyError", msg |-> "no such table: todos"]
ExecuteError == [type |-> "SQLAlchemyError", msg |-> "statement failed"]
CommitError == [type |-> "SQLAlchemyError", msg |-> "commit failed"]

\* ------------------------------------------ db_backends, database_config
\* Strings the configuration code inspects are sequences of characters.
UpperCase ==
    <<"A", "B", "C", "D", "E", "F", "G", "H", "I", "J", "K", "L", "M",
      "N", "O", "P", "Q", "R", "S", "T", "U", "V", "W", "X", "Y", "Z">>
LowerCase ==
    <<"a", "b", "c", "d", "e", "f", "g", "h", "i", "j", "k", "l", "m",
      "n", "o", "p", "q", "r", "s", "t", "u", "v", "w", "x", "y", "z">>

LowerChar(c) ==
    IF \E i \in DOMAIN UpperCase : UpperCase[i] = c
    THEN LowerCase[CHOOSE i \in DOMAIN UpperCase : UpperCase[i] = c]
    ELSE c

\* str.lower()
lower(s) == [i \in DOMAIN s |-> LowerChar(s[i])]

\* str.startswith, str.endswith and `c in s`
startswith(s, prefix) == Len(s) >= Len(prefix) /\ SubSeq(s, 1, Len(prefix)) = prefix
endswith(s, suffix) ==
    Len(s) >= Len(suffix) /\ SubSeq(s, Len(s) - Len(suffix) + 1, Len(s)) = suffix
contains(s, c) == \E i \in DOMAIN s : s[i] = c

SQLITE == <<"s", "q", "l", "i", "t", "e">>
POSTGRESQL == <<"p", "o", "s", "t", "g", "r", "e", "s", "q", "l">>
MYSQL == <<"m", "y", "s", "q", "l">>
Local == <<"l", "o", "c", "a", "l">>
DATABRICKS == <<"d", "a", "t", "a", "b", "r", "i", "c", "k", "s">>

\* _backends: the registered backends.
RegisteredBackends == {POSTGRESQL, SQLITE}

\* A dict built from <<key, value>> pairs; a value of None leaves the key out.
Dict(pairs) ==
    [k \in {q[1] : q \in {r \in pairs : r[2] # None}} |->
        (CHOOSE q \in pairs : q[1] = k)[2][1]]

\* dict.get(key, "")
Get(d, k) == IF k \in DOMAIN d THEN d[k] ELSE <<>>

\* A mutant of detect_backend_type: the url is examined before the type field.
detect_backend_type_url_first(config) ==
    LET url == lower(Get(config, "url"))
    IN  IF "url" \in DOMAIN config /\ startswith(url, SQLITE) THEN SQLITE
        ELSE IF "url" \in DOMAIN config /\ startswith(url, POSTGRESQL) THEN POSTGRESQL
        ELSE IF "url" \in DOMAIN config /\ startswith(url, MYSQL) THEN MYSQL
        ELSE IF "type" \in DOMAIN config THEN lower(config["type"])
        ELSE IF /\ "database" \in DOMAIN config
                /\ "host" \notin DOMAIN config
                /\ "port" \notin DOMAIN config
                /\ \/ endswith(config["database"], <<".", "d", "b">>)
                   \/ contains(config["database"], "/")
                   \/ contains(config["database"], "\\")
             THEN SQLITE
        ELSE POSTGRESQL

\* detect_backend_type(config)
detect_backend_type(config) ==
    LET url == lower(Get(config, "url"))
    IN  IF "type" \in DOMAIN config THEN lower(config["type"])
        ELSE IF "url" \in DOMAIN config /\ startswith(url, SQLITE) THEN SQLITE
        ELSE IF "url" \in DOMAIN config /\ startswith(url, POSTGRESQL) THEN POSTGRESQL
        ELSE IF "url" \in DOMAIN config /\ startswith(url, MYSQL) THEN MYSQL
        ELSE IF /\ "database" \in DOMAIN config
                /\ "host" \notin DOMAIN config
                /\ "port" \notin DOMAIN config
                /\ \/ endswith(config["database"], <<".", "d", "b">>)
                   \/ contains(config["database"], "/")
                   \/ contains(config["database"], "\\")
             THEN SQLITE
        ELSE POSTGRESQL

\* The configs detect_backend_type is applied to.
DetectConfigs ==
    {Dict({<<"type", t>>, <<"url", u>>, <<"database", d>>, <<"host", h>>, <<"port", p>>}) :
        t \in {None, Some(<<"S", "Q", "L", "i", "t", "e">>), Some(POSTGRESQL),
               Some(<<"M", "y", "S", "Q", "L">>)},
        u \in {None, Some(<<"s", "q", "l", "i", "t", "e", ":", "/", "t">>),
               Some(<<"P", "o", "s", "t", "g", "r", "e", "S", "Q", "L", "+", "x">>),
               Some(<<"m", "y", "s", "q", "l", ":">>), Some(<<"o", "r", "a", ":">>)},
        d \in {None, Some(<<"t", ".", "d", "b">>), Some(<<"d", "/", "t">>),
               Some(<<"d", "\\", "t">>), Some(<<"t", "o", "d", "o", "s">>)},
        h \in {None, Some(<<"h">>)},
        p \in {None, Some(<<"5", "4", "3", "2">>)}}

\* A section of app.yaml without fields; config.get() of a missing section
\* is as falsy as this one.
EmptySection == [k \in {} |-> <<>>]

LocalSection ==
    Dict({<<"host", Some(<<"l">>)>>, <<"port", Some(<<"5", "4", "3", "2">>)>>,
          <<"database", Some(<<"t", "o", "d", "o", "s">>)>>, <<"user", Some(<<"u">>)>>,
          <<"password", Some(<<"p">>)>>})
DatabricksSection ==
    Dict({<<"host", Some(<<"d">>)>>, <<"port", Some(<<"5", "4", "3", "2">>)>>,
          <<"database", Some(<<"t", "o", "d", "o", "s">>)>>, <<"user", Some(<<"u">>)>>,
          <<"password", Some(<<"p">>)>>})
SqliteSection ==
    Dict({<<"type", Some(SQLITE)>>, <<"database", Some(<<"t", ".", "d", "b">>)>>})
\* A database_sqlite section that gives the database file and nothing else.
PathOnlySection == Dict({<<"database", Some(<<"t", ".", "d", "b">>)>>})
\* A section that names a host only.
PartialSection == Dict({<<"host", Some(<<"d">>)>>})

SectionKeys == {"database_local", "database_sqlite", "database_databricks"}

\* load_app_yaml(): the parsed app.yaml, each section missing, empty or filled.
Yamls ==
    {[k \in present |->
        IF k = "database_local" THEN l
        ELSE IF k = "database_sqlite" THEN q
        ELSE d] :
        present \in SUBSET SectionKeys,
        l \in {EmptySection, LocalSection},
        q \in {EmptySection, SqliteSection, PathOnlySection},
        d \in {EmptySection, DatabricksSection, PartialSection}}

\* os.environ: DB_ENV unset, empty or set in some case; DB_NAME unset or set.
Environments ==
    {Dict({<<"DB_ENV", e>>, <<"DB_NAME", n>>}) :
        e \in {None, Some(<<>>), Some(Local), Some(<<"L", "O", "C", "A", "L">>),
               Some(SQLITE), Some(<<"S", "Q", "L", "i", "t", "e">>), Some(DATABRICKS),
               Some(<<"p", "r", "o", "d">>)},
        n \in {None, Some(<<"o", ".", "d", "b">>)}}

\* os.getenv(name, default)
getenv(env, name, default) == IF name \in DOMAIN env THEN env[name] ELSE default

\* a or b, on strings
Or(a, b) == IF a # <<>> THEN a ELSE b

\* The environment variable that overrides a field.
OverrideOf(field) ==
    CASE field = "host" -> "DB_HOST"
      [] field = "port" -> "DB_PORT"
      [] field = "database" -> "DB_NAME"
      [] field = "user" -> "DB_USER"
      [] field = "password" -> "DB_PASSWORD"

\* db_config: each field from its environment variable or else the section.
Overridden(env, database_config) ==
    [field \in {"host", "port", "database", "user", "password"} |->
        Or(getenv(env, OverrideOf(field), <<>>), Get(database_config, field))]

\* What a call of get_database_config yields: the section it read, and the
\* dictionary it returned or the ValueError it raised.
Returned(config_key, db_config) ==
    [config_key |-> config_key, raised |-> None, db_config |-> db_config]
RaisedValueError(config_key, about) ==
    [config_key |-> config_key, raised |-> Some([type |-> "ValueError", about |-> about]),
     db_config |-> EmptySection]

\* PostgreSQLBackend.validate_config / SQLiteBackend.validate_config
validate_config(backend_type, config) ==
    IF backend_type = SQLITE THEN Get(config, "database") # <<>>
    ELSE \A field \in {"host", "port", "database", "user"} : Get(config, field) # <<>>

\* utils/database_config.get_database_config()
get_database_config(env, yaml) ==
    LET db_env == lower(getenv(env, "DB_ENV", DATABRICKS))
        config_key ==
            IF db_env = Local THEN "database_local"
            ELSE IF db_env = SQLITE THEN "database_sqlite"
            ELSE "database_databricks"
        database_config ==
            IF config_key \in DOMAIN yaml THEN yaml[config_key] ELSE EmptySection
        fields == Overridden(env, database_config)
        db_config ==
            IF "type" \in DOMAIN database_config
            THEN fields @@ ("type" :> database_config["type"])
            ELSE fields
        backend_type == detect_backend_type(db_config)
    IN  IF DOMAIN database_config = {} THEN RaisedValueError(config_key, "section")
        ELSE IF backend_type \notin RegisteredBackends
             THEN RaisedValueError(config_key, "backend")
        ELSE IF ~validate_config(backend_type, db_config)
             THEN RaisedValueError(config_key, "fields")
        ELSE Returned(config_key, db_config)

\* utils/database_config.get_backend_type()
get_backend_type(env, yaml) ==
    LET config == get_database_config(env, yaml)
    IN  IF config.raised # None
        THEN [raised |-> config.raised, backend_type |-> None]
        ELSE [raised |-> None, backend_type |-> Some(detect_backend_type(config.db_config))]

\* database_config.get_database_config(), the module at the top of src
legacy_get_database_config(env, yaml) ==
    LET db_env == lower(getenv(env, "DB_ENV", DATABRICKS))
        config_key ==
            IF db_env = Local THEN "database_local" ELSE "database_databricks"
        database_config ==
            IF config_key \in DOMAIN yaml THEN yaml[config_key] ELSE EmptySection
        db_config == Overridden(env, database_config)
    IN  IF DOMAIN database_config = {} THEN RaisedValueError(config_key, "section")
        ELSE IF \E field \in {"host", "port", "database", "user"} : db_config[field] = <<>>
             THEN RaisedValueError(config_key, "fields")
        ELSE Returned(config_key, db_config)

\* No configuration function called yet.
NoCall == [fn |-> "none", input |-> <<>>, result |-> <<>>]

\* ------------------------------------------------------ utils/timing_utils
\* The fields of TimingInfo.
TimingFields ==
    {"connection_acquisition_ms", "query_execution_ms", "data_transformation_ms",
     "repository_total_ms", "endpoint_processing_ms", "response_serialization_ms",
     "total_ms"}

\* TimingInfo(): every field 0.0.  Durations are whole microseconds.
TimingInfo == [f \in TimingFields |-> 0]

\* round(x, 2) and f"{x:.2f}" of a duration in milliseconds: hundredths of a
\* millisecond.
Round2(us) == (us + 5) \div 10

\* TimingInfo.to_dict
to_dict(ti) == [f \in TimingFields |-> Round2(ti[f])]

\* One part of the header string, when its condition holds.
HeaderPart(cond, name, us) == IF cond THEN <<<<name, Round2(us)>>>> ELSE <<>>

\* A mutant of to_header_string: total= is appended like the other parts, only
\* when positive.
to_header_string_total_if_positive(ti) ==
    HeaderPart(ti["connection_acquisition_ms"] > 0, "conn", ti["connection_acquisition_ms"])
    \o HeaderPart(ti["query_execution_ms"] > 0, "query", ti["query_execution_ms"])
    \o HeaderPart(ti["data_transformation_ms"] > 0, "transform", ti["data_transformation_ms"])
    \o HeaderPart(ti["repository_total_ms"] > 0, "repo", ti["repository_total_ms"])
    \o HeaderPart(ti["endpoint_processing_ms"] > 0, "endpoint", ti["endpoint_processing_ms"])
    \o HeaderPart(ti["response_serialization_ms"] > 0, "serialize",
                  ti["response_serialization_ms"])
    \o HeaderPart(ti["total_ms"] > 0, "total", ti["total_ms"])

\* TimingInfo.to_header_string: the parts, in order, as name and value.
to_header_string(ti) ==
    HeaderPart(ti["connection_acquisition_ms"] > 0, "conn", ti["connection_acquisition_ms"])
    \o HeaderPart(ti["query_execution_ms"] > 0, "query", ti["query_execution_ms"])
    \o HeaderPart(ti["data_transformation_ms"] > 0, "transform", ti["data_transformation_ms"])
    \o HeaderPart(ti["repository_total_ms"] > 0, "repo", ti["repository_total_ms"])
    \o HeaderPart(ti["endpoint_processing_ms"] > 0, "endpoint", ti["endpoint_processing_ms"])
    \o HeaderPart(ti["response_serialization_ms"] > 0, "serialize",
                  ti["response_serialization_ms"])
    \o HeaderPart(TRUE, "total", ti["total_ms"])

\* What the timer measures for a request: nothing (the clock did not advance
\* between two readings), a typical request, a request with some durations
\* below the clock's resolution.
ZeroMeasurement ==
    [conn |-> 0, query |-> 0, transform |-> 0, repo |-> 0, serialize |-> 0,
     endpoint |-> 0]
TypicalMeasurement ==
    [conn |-> 1204, query |-> 3456, transform |-> 4, repo |-> 4700, serialize |-> 1,
     endpoint |-> 4705]
CoarseMeasurement ==
    [conn |-> 0, query |-> 995, transform |-> 0, repo |-> 995, serialize |-> 0,
     endpoint |-> 1000]
Measurements == {ZeroMeasurement, TypicalMeasurement, CoarseMeasurement}

\* The TimingInfo a repository function returns on its success path;
\* delete_todo measures no data transformation.
RepositoryTiming(op, m) ==
    [TimingInfo EXCEPT !["connection_acquisition_ms"] = m.conn,
                       !["query_execution_ms"] = m.query,
                       !["data_transformation_ms"] =
                           IF op = "delete" THEN 0 ELSE m.transform,
                       !["repository_total_ms"] = m.repo]

\* The TimingInfo of an endpoint's success path; delete_todo_endpoint measures
\* no serialization.
EndpointTiming(op, m) ==
    [RepositoryTiming(op, m)
        EXCEPT !["response_serialization_ms"] = IF op = "delete" THEN 0 ELSE m.serialize,
               !["endpoint_processing_ms"] = m.endpoint,
               !["total_ms"] = m.endpoint]

\* response.headers["X-Timing"] and response.headers["X-Timing-JSON"].
TimingHeaders(ti) ==
    [x_timing |-> to_header_string(ti), x_timing_json |-> to_dict(ti)]

\* A mutant of RepositoryWork: a statement that raised is executed once more.
RepositoryWorkRetry(raised) ==
    [calls |-> 1,
     sessions |-> IF raised = Some(ConfigError) THEN 0 ELSE 1,
     statements |-> IF raised = Some(ConfigError) THEN 0
                    ELSE IF raised \in {Some(ExecuteError), Some(NoTableError)} THEN 2
                    ELSE 1]

\* The one call an endpoint makes of its repository function: one
\* `async with get_async_session()` and, in it, one `session.execute(stmt)`;
\* when get_async_session raises before it yields, the block does not run.
RepositoryWork(raised) ==
    [calls |-> 1,
     sessions |-> IF raised = Some(ConfigError) THEN 0 ELSE 1,
     statements |-> IF raised = Some(ConfigError) THEN 0 ELSE 1]

\* ------------------------------------------------------ utils/db_connection
\* A mutant of get_async_engine: the engine is constructed on every call.
get_async_engine_always(ok) ==
    IF ok
    THEN /\ async_engine' = Some(engines_created + 1)
         /\ async_session_factory' = Some(engines_created + 1)
         /\ engines_created' = engines_created + 1
         /\ built_since_close' = built_since_close + 1
    ELSE UNCHANGED <<async_engine, async_session_factory, engines_created,
                     built_since_close>>

\* get_async_engine(): constructs the engine and the session factory when there
\* is no engine; ok says whether that construction succeeds (it raises
\* otherwise, before either global is assigned).
get_async_engine(ok) ==
    IF async_engine = None /\ ok
    THEN /\ async_engine' = Some(engines_created + 1)
         /\ async_session_factory' = Some(engines_created + 1)
         /\ engines_created' = engines_created + 1
         /\ built_since_close' = built_since_close + 1
    ELSE UNCHANGED <<async_engine, async_session_factory, engines_created,
                     built_since_close>>

\* get_async_session(), up to the yield: the factory is built on first use.
SessionEnter(ok) ==
    /\ provider_called' = TRUE
    /\ IF async_session_factory = None
       THEN get_async_engine(ok)
       ELSE UNCHANGED <<async_engine, async_session_factory, engines_created,
                        built_since_close>>

\* What entering the session raises: the error of a failed construction.
EnterRaises(ok) == async_session_factory = None /\ async_engine = None /\ ~ok

\* A mutant of Persisted: a write whose commit raised is kept.
PersistedDespiteCommitError(exc, after) ==
    IF exc = None \/ exc = Some(CommitError) THEN after ELSE todos

\* get_async_session(), after the yield: commit when the body raised nothing,
\* rollback when the body or the commit raised.
Persisted(exc, after) == IF exc = None THEN after ELSE todos

\* A mutant of SessionExit: a commit that raised is not followed by a rollback.
SessionExitCommitErrorNotRolledBack(raised) ==
    IF raised = Some(ConfigError)
    THEN [entered |-> FALSE, commits |-> 0, rollbacks |-> 0, reraised |-> raised]
    ELSE IF raised = None \/ raised = Some(CommitError)
    THEN [entered |-> TRUE, commits |-> 1, rollbacks |-> 0, reraised |-> raised]
    ELSE [entered |-> TRUE, commits |-> 0, rollbacks |-> 1, reraised |-> raised]

\* get_async_session(), the try block around the yield, for what the use of
\* the session raised: nothing, the error of the commit, the error of the body
\* or, before the yield, the error of the engine's construction.  The body's
\* error skips the commit; either error is caught, followed by
\* session.rollback() and raised again.
SessionExit(raised) ==
    IF raised = Some(ConfigError)
    THEN [entered |-> FALSE, commits |-> 0, rollbacks |-> 0, reraised |-> raised]
    ELSE IF raised = None
    THEN [entered |-> TRUE, commits |-> 1, rollbacks |-> 0, reraised |-> None]
    ELSE IF raised = Some(CommitError)
    THEN [entered |-> TRUE, commits |-> 1, rollbacks |-> 1, reraised |-> raised]
    ELSE [entered |-> TRUE, commits |-> 0, rollbacks |-> 1, reraised |-> raised]

\* A mutant of close_async_engine: the session factory is left in place.
close_async_engine_keeps_factory ==
    IF async_engine # None
    THEN /\ async_engine' = None
         /\ built_since_close' = 0
         /\ UNCHANGED <<async_session_factory, engines_created>>
    ELSE UNCHANGED <<async_engine, async_session_factory, engines_created,
                     built_since_close>>

\* close_async_engine()
close_async_engine ==
    IF async_engine # None
    THEN /\ async_engine' = None
         /\ async_session_factory' = None
         /\ built_since_close' = 0
         /\ UNCHANGED engines_created
    ELSE UNCHANGED <<async_engine, async_session_factory, engines_created,
                     built_since_close>>

\* ---------------------------------------------------------------- database
\* The id an INSERT assigns.  PostgreSQL draws it from the table's sequence;
\* SQLite's INTEGER PRIMARY KEY without AUTOINCREMENT takes the largest id in
\* the table plus one.
\* A mutant of NextId: on both backends the largest id in the table plus one.
NextIdFromRows == IF DOMAIN todos = {} THEN 1 ELSE SetMax(DOMAIN todos) + 1

NextId ==
    IF backend = "postgresql"
    THEN seq + 1
    ELSE IF DOMAIN todos = {} THEN 1 ELSE SetMax(DOMAIN todos) + 1

\* The server default of created_at / updated_at at clock time t:
\* now() on PostgreSQL, datetime('now'), whole seconds, on SQLite.
ServerNow(t) ==
    IF backend = "sqlite" THEN (t \div TicksPerSecond) * TicksPerSecond ELSE t

\* The statement of a request that raises no injected fault still fails when
\* the todos table does not exist.
Raised(fault) ==
    CASE fault = "engine" -> Some(ConfigError)
      [] fault = "execute" -> Some(ExecuteError)
      [] fault = "commit" /\ db_ready -> Some(CommitError)
      [] fault \in {"none", "commit"} /\ ~db_ready -> Some(NoTableError)
      [] OTHER -> None

\* The statement ran (whether or not the commit then succeeded).
Executed(fault) == fault \in {"none", "commit"} /\ db_ready

\* A fault that can happen in the current state: the engine is constructed
\* only when there is none.
FaultApplies(fault) == fault = "engine" => async_session_factory = None

\* ---------------------------------------------------------- todo_repository
\* create_todo: the row INSERT ... RETURNING yields.
InsertedRow(data, id, t) ==
    [id |-> id, title |-> data.title, description |-> data.description,
     completed |-> FALSE, priority |-> data.priority, due_date |-> data.due_date,
     payload |-> data.payload, created_at |-> ServerNow(t), updated_at |-> ServerNow(t)]

UpdatableFields == {"title", "description", "completed", "priority", "due_date", "payload"}
NullableColumns == {"description", "due_date", "payload"}

\* A mutant of UpdateValues: a nullable column is written even when the
\* request leaves its field None.
UpdateValuesNullsIncluded(data, t) ==
    [f \in {g \in UpdatableFields : data[g] # None} \cup NullableColumns
            \cup {"updated_at"} |->
        IF f = "updated_at" THEN t
        ELSE IF f \in NullableColumns THEN data[f]
        ELSE data[f][1]]

\* A mutant of UpdateValues: the `completed` clause is missing.
UpdateValuesWithoutCompleted(data, t) ==
    [f \in {g \in UpdatableFields \ {"completed"} : data[g] # None} \cup {"updated_at"} |->
        IF f = "updated_at" THEN t
        ELSE IF f \in NullableColumns THEN data[f]
        ELSE data[f][1]]

\* A mutant of UpdateValues: updated_at is set only along with another field.
UpdateValuesStampedWithFields(data, t) ==
    [f \in {g \in UpdatableFields : data[g] # None}
            \cup (IF \E g \in UpdatableFields : data[g] # None
                  THEN {"updated_at"} ELSE {}) |->
        IF f = "updated_at" THEN t
        ELSE IF f \in NullableColumns THEN data[f]
        ELSE data[f][1]]

\* update_todo: update_values, the fields that are not None plus updated_at.
UpdateValues(data, t) ==
    [f \in {g \in UpdatableFields : data[g] # None} \cup {"updated_at"} |->
        IF f = "updated_at" THEN t
        ELSE IF f \in NullableColumns THEN data[f]
        ELSE data[f][1]]

\* UPDATE todos SET values WHERE id = ... on one row.
UpdatedRow(row, values) ==
    [c \in DOMAIN row |-> IF c \in DOMAIN values THEN values[c] ELSE row[c]]

\* A mutant of Matches: the completed filter is ignored.
MatchesPriorityOnly(row, q) == q.priority # None => row.priority = q.priority[1]

\* list_todos: the WHERE clause.
Matches(row, q) ==
    /\ q.completed # None => row.completed = q.completed[1]
    /\ q.priority # None => row.priority = q.priority[1]

\* The sequences that hold each row of rows once.
Orderings(rows) ==
    {s \in [1..Cardinality(rows) -> rows] : \A i, j \in DOMAIN s : i # j => s[i] # s[j]}

\* list_todos: the result lists SELECT ... ORDER BY created_at DESC can yield;
\* rows with equal created_at come in any order.
ListResults(q) ==
    {s \in Orderings({todos[i] : i \in {j \in DOMAIN todos : Matches(todos[j], q)}}) :
        \A i, j \in DOMAIN s : i < j => s[i].created_at >= s[j].created_at}

\* --------------------------------------------------------- app.py endpoints
\* The except clauses of a TODO endpoint for what the repository call raised.
EndpointError(exc) ==
    IF exc.type = "SQLAlchemyError"
    THEN [status |-> 500, detail |-> <<"Database error: ", exc.msg>>, escaped |-> FALSE]
    ELSE [status |-> 500, detail |-> <<"Internal server error: ", exc.msg>>,
          escaped |-> FALSE]

\* The response of a request and, with it, what the repository call raised.
Response(op, id, body, status, todo, items, detail, raised, escaped) ==
    [op |-> op, id |-> id, body |-> body, status |-> status, todo |-> todo,
     items |-> items, detail |-> detail, raised |-> raised, escaped |-> escaped,
     engine |-> async_session_factory', headers |-> None,
     work |-> RepositoryWork(raised), session |-> SessionExit(raised)]

\* The body fails validation: FastAPI answers 422 and the handler does not run.
Rejected(op, id, body) ==
    [op |-> op, id |-> id, body |-> body, status |-> 422, todo |-> None,
     items |-> <<>>, detail |-> <<"validation error">>, raised |-> None,
     escaped |-> FALSE, engine |-> None, headers |-> None, work |-> NoWork,
     session |-> NoSession]

Failure(op, id, body, exc) ==
    LET e == EndpointError(exc[1])
    IN  Response(op, id, body, e.status, None, <<>>, e.detail, exc, e.escaped)

\* raise HTTPException(status_code=404, ...), re-raised by `except HTTPException`.
NotFound(op, id, body) ==
    Response(op, id, body, 404, None, <<>>, <<"TODO not found">>, None, FALSE)

\* The success path of an endpoint: the timing headers are set on the response.
Success(op, id, body, status, todo, items) ==
    [Response(op, id, body, status, todo, items, <<>>, None, FALSE)
        EXCEPT !.headers = Some(TimingHeaders(EndpointTiming(op, elapsed)))]

\* POST /api/todo
create_todo_endpoint(body, fault) ==
    /\ phase = "serving"
    /\ UNCHANGED <<backend, call, disk, elapsed, inflight, schemaVars, sessions, lifeVars, db_ready, deleted>>
    /\ IF ~TodoCreateValid(body)
       THEN /\ fault = "none"
            /\ resp' = Rejected("create", 0, body)
            /\ UNCHANGED <<engineVars, todos, seq, clock>>
       ELSE /\ FaultApplies(fault)
            /\ clock < MaxTime
            /\ NextId <= MaxId
            /\ SessionEnter(fault # "engine")
            /\ LET data == TodoCreate(body)
                   exc == Raised(fault)
                   row == InsertedRow(data, NextId, clock)
               IN  /\ clock' = IF Executed(fault) THEN clock + 1 ELSE clock
                   /\ seq' = IF Executed(fault) /\ backend = "postgresql"
                             THEN seq + 1 ELSE seq
                   /\ todos' = Persisted(exc, todos @@ (NextId :> row))
                   /\ resp' = IF exc # None
                              THEN Failure("create", 0, body, exc)
                              ELSE Success("create", 0, body, 201, Some(row), <<>>)

\* GET /api/todo/{todo_id}
get_todo_endpoint(id, fault) ==
    /\ phase = "serving"
    /\ FaultApplies(fault)
    /\ SessionEnter(fault # "engine")
    /\ LET exc == Raised(fault)
       IN  resp' = IF exc # None THEN Failure("get", id, None, exc)
                   ELSE IF id \notin DOMAIN todos THEN NotFound("get", id, None)
                   ELSE Success("get", id, None, 200, Some(todos[id]), <<>>)
    /\ UNCHANGED <<backend, call, disk, elapsed, inflight, schemaVars, sessions, lifeVars, db_ready, dbVars>>

\* PUT /api/todo/{todo_id}
update_todo_endpoint(id, body, fault) ==
    /\ phase = "serving"
    /\ UNCHANGED <<backend, call, disk, elapsed, inflight, schemaVars, sessions, lifeVars, db_ready, seq, deleted>>
    /\ IF ~TodoUpdateValid(body)
       THEN /\ fault = "none"
            /\ resp' = Rejected("update", id, body)
            /\ UNCHANGED <<engineVars, todos, clock>>
       ELSE /\ FaultApplies(fault)
            /\ clock < MaxTime
            /\ SessionEnter(fault # "engine")
            /\ LET data == TodoUpdate(body)
                   exc == Raised(fault)
                   values == UpdateValues(data, clock)
                   found == id \in DOMAIN todos
                   row == IF DOMAIN values = {}
                          THEN todos[id]
                          ELSE UpdatedRow(todos[id], values)
               IN  /\ clock' = IF fault # "engine" THEN clock + 1 ELSE clock
                   /\ todos' = Persisted(exc, IF found
                                              THEN [todos EXCEPT ![id] = row]
                                              ELSE todos)
                   /\ resp' = IF exc # None THEN Failure("update", id, body, exc)
                              ELSE IF ~found THEN NotFound("update", id, body)
                              ELSE Success("update", id, body, 200, Some(row), <<>>)

\* A mutant of delete_todo_endpoint: the `if not deleted` check is missing.
delete_todo_endpoint_always_204(id, fault) ==
    /\ phase = "serving"
    /\ FaultApplies(fault)
    /\ SessionEnter(fault # "engine")
    /\ LET exc == Raised(fault)
           found == id \in DOMAIN todos
       IN  /\ todos' = Persisted(exc, [i \in DOMAIN todos \ {id} |-> todos[i]])
           /\ deleted' = IF exc = None /\ found THEN deleted \cup {id} ELSE deleted
           /\ resp' = IF exc # None THEN Failure("delete", id, None, exc)
                      ELSE Success("delete", id, None, 204, None, <<>>)
    /\ UNCHANGED <<backend, call, disk, elapsed, inflight, schemaVars, sessions, lifeVars, db_ready, seq, clock>>

\* DELETE /api/todo/{todo_id}
delete_todo_endpoint(id, fault) ==
    /\ phase = "serving"
    /\ FaultApplies(fault)
    /\ SessionEnter(fault # "engine")
    /\ LET exc == Raised(fault)
           found == id \in DOMAIN todos
       IN  /\ todos' = Persisted(exc, [i \in DOMAIN todos \ {id} |-> todos[i]])
           /\ deleted' = IF exc = None /\ found THEN deleted \cup {id} ELSE deleted
           /\ resp' = IF exc # None THEN Failure("delete", id, None, exc)
                      ELSE IF ~found THEN NotFound("delete", id, None)
                      ELSE Success("delete", id, None, 204, None, <<>>)
    /\ UNCHANGED <<backend, call, disk, elapsed, inflight, schemaVars, sessions, lifeVars, db_ready, seq, clock>>

\* GET /api/todo
list_todos_endpoint(q, fault) ==
    /\ phase = "serving"
    /\ UNCHANGED <<backend, call, disk, elapsed, inflight, schemaVars, sessions, lifeVars, db_ready, dbVars>>
    /\ IF ~ListQueryValid(q)
       THEN /\ fault = "none"
            /\ resp' = Rejected("list", 0, q)
            /\ UNCHANGED engineVars
       ELSE /\ FaultApplies(fault)
            /\ SessionEnter(fault # "engine")
            /\ LET exc == Raised(fault)
               IN  IF exc # None
                   THEN resp' = Failure("list", 0, q, exc)
                   ELSE \E items \in ListResults(q) :
                            resp' = Success("list", 0, q, 200, None, items)

\* GET /api/test/select-one
test_select_one_endpoint(fault) ==
    /\ phase = "serving"
    /\ FaultApplies(fault)
    /\ SessionEnter(fault # "engine")
    /\ LET exc == IF fault \in {"none", "commit"} /\ ~db_ready
                  THEN IF fault = "commit" THEN Some(CommitError) ELSE None
                  ELSE Raised(fault)
       IN  resp' = IF exc # None THEN Failure("select_one", 0, None, exc)
                   ELSE Success("select_one", 0, None, 200, None, <<1>>)
    /\ UNCHANGED <<backend, call, disk, elapsed, inflight, schemaVars, sessions, lifeVars, db_ready, dbVars>>

\* GET /api/healthcheck: reads the environment and the file system only.
healthcheck ==
    /\ phase = "serving"
    /\ resp' = [NoResp EXCEPT !.op = "healthcheck", !.status = 200,
                              !.detail = <<"healthy">>]
    /\ UNCHANGED <<backend, call, disk, elapsed, inflight, schemaVars, sessions, lifeVars, db_ready, engineVars,
                   dbVars>>

\* GET /api/list: os.listdir of the workspace directory; an error is reported
\* in the body of a 200 response.
list_files ==
    /\ phase = "serving"
    /\ resp' = [NoResp EXCEPT !.op = "list_files", !.status = 200]
    /\ UNCHANGED <<backend, call, disk, elapsed, inflight, schemaVars, sessions, lifeVars, db_ready, engineVars,
                   dbVars>>

\* ------------------------------------------------------ app.py file endpoints
\* A path is the sequence of its components, each a sequence of characters;
\* the empty sequence is the root.  A filename is given as its components; one
\* that begins with "/" has an empty first component.
Dot == <<".">>
DotDot == <<".", ".">>

\* get_base_dir() with WORKSPACE_DIR=/w, and get_files_dir()
BaseDir == <<<<"w">>>>
FilesDir == BaseDir \o <<<<"f">>>>

\* The directories of the file system; none is a symbolic link.
Directories ==
    {<<>>, BaseDir, FilesDir, FilesDir \o <<<<"d">>>>, BaseDir \o <<<<"f", "b">>>>,
     BaseDir \o <<<<"x">>>>}

\* The files at the start: two inside the files directory, one in a sibling
\* directory whose name begins like the files directory's, one in another
\* sibling, one in the workspace directory.
InitialDisk ==
    {FilesDir \o <<<<"a">>>>, FilesDir \o <<<<"d">>, <<"a">>>>,
     BaseDir \o <<<<"f", "b">>, <<"s">>>>, BaseDir \o <<<<"x">>, <<"s">>>>,
     BaseDir \o <<<<"s">>>>}

\* The filenames requested.
Filenames ==
    {<<<<"a">>>>, <<<<"d">>, <<"a">>>>, <<<<"d">>>>, <<<<"m">>>>,
     <<<<"d">>, DotDot, <<"a">>>>,
     <<DotDot, <<"f">>, <<"a">>>>,
     <<DotDot, <<"f", "b">>, <<"s">>>>, <<DotDot, <<"f", "b">>, <<"m">>>>,
     <<DotDot, <<"f", "b">>>>,
     <<DotDot, <<"x">>, <<"s">>>>, <<DotDot, <<"s">>>>, <<DotDot, DotDot, <<"e">>>>,
     <<<<>>, <<"w">>, <<"s">>>>, <<Dot>>, <<DotDot>>}

\* PurePath.__truediv__: an absolute right operand replaces the left one.
JoinPath(dir, filename) ==
    IF filename # <<>> /\ Head(filename) = <<>> THEN Tail(filename) ELSE dir \o filename

\* Path.resolve() where no component is a symbolic link: "." and empty
\* components are dropped, ".." removes the component before it.
RECURSIVE Normalize(_, _)
Normalize(done, rest) ==
    IF rest = <<>> THEN done
    ELSE IF Head(rest) = DotDot
         THEN Normalize(IF done = <<>> THEN <<>> ELSE SubSeq(done, 1, Len(done) - 1),
                        Tail(rest))
    ELSE IF Head(rest) = Dot \/ Head(rest) = <<>> THEN Normalize(done, Tail(rest))
    ELSE Normalize(Append(done, Head(rest)), Tail(rest))
resolve(path) == Normalize(<<>>, path)

\* str(path)
RECURSIVE PathStr(_)
PathStr(path) ==
    IF path = <<>> THEN <<"/">>
    ELSE IF Len(path) = 1 THEN <<"/">> \o path[1]
    ELSE PathStr(SubSeq(path, 1, Len(path) - 1)) \o <<"/">> \o path[Len(path)]

\* str(file_path).startswith(str(dir.resolve()))
WithinDir(path, dir) == startswith(PathStr(path), PathStr(resolve(dir)))

exists(path) == path \in disk \/ path \in Directories
is_file(path) == path \in disk

\* The answer of a file endpoint; items holds the path that was read, written
\* or deleted, if any.
FileResponse(op, filename, status, touched) ==
    [NoResp EXCEPT !.op = op, !.body = filename, !.status = status, !.items = touched]

\* GET /api/read/{filename:path}
read_file(filename) ==
    /\ phase = "serving"
    /\ LET file_path == resolve(JoinPath(FilesDir, filename))
       IN  resp' = IF ~WithinDir(file_path, FilesDir)
                   THEN FileResponse("read_file", filename, 400, <<>>)
                   ELSE IF ~exists(file_path)
                   THEN FileResponse("read_file", filename, 404, <<>>)
                   ELSE IF ~is_file(file_path)
                   THEN FileResponse("read_file", filename, 400, <<>>)
                   ELSE FileResponse("read_file", filename, 200, <<file_path>>)
    /\ UNCHANGED <<backend, call, disk, elapsed, inflight, schemaVars, sessions, lifeVars,
                   db_ready, dbVars, engineVars>>

\* DELETE /api/delete/{filename:path}
delete_file(filename) ==
    /\ phase = "serving"
    /\ LET file_path == resolve(JoinPath(FilesDir, filename))
       IN  IF ~WithinDir(file_path, FilesDir)
           THEN /\ resp' = FileResponse("delete_file", filename, 400, <<>>)
                /\ UNCHANGED disk
           ELSE IF ~exists(file_path)
           THEN /\ resp' = FileResponse("delete_file", filename, 404, <<>>)
                /\ UNCHANGED disk
           ELSE IF ~is_file(file_path)
           THEN /\ resp' = FileResponse("delete_file", filename, 400, <<>>)
                /\ UNCHANGED disk
           ELSE /\ resp' = FileResponse("delete_file", filename, 200, <<file_path>>)
                /\ disk' = disk \ {file_path}
    /\ UNCHANGED <<backend, call, elapsed, inflight, schemaVars, sessions, lifeVars,
                   db_ready, dbVars, engineVars>>

\* POST /api/write/{filename:path}: the file is written to WORKSPACE_DIR under
\* the basename of the filename; writing onto a directory raises.
write_file(filename) ==
    /\ phase = "serving"
    /\ LET safe_filename == IF filename = <<>> THEN <<>> ELSE filename[Len(filename)]
           file_path == resolve(BaseDir \o <<safe_filename>>)
       IN  IF safe_filename \in {<<>>, Dot, DotDot} \/ ~WithinDir(file_path, BaseDir)
           THEN /\ resp' = FileResponse("write_file", filename, 400, <<>>)
                /\ UNCHANGED disk
           ELSE IF file_path \in Directories
           THEN /\ resp' = FileResponse("write_file", filename, 500, <<>>)
                /\ UNCHANGED disk
           ELSE /\ resp' = FileResponse("write_file", filename, 200, <<file_path>>)
                /\ disk' = disk \cup {file_path}
    /\ UNCHANGED <<backend, call, elapsed, inflight, schemaVars, sessions, lifeVars,
                   db_ready, dbVars, engineVars>>

\* ----------------------------------------- alembic/versions, db_migrations
\* The revision identifiers of the three scripts.
Revisions == {"b2be44556bf2", "add_todo_indexes", "add_payload_column"}

\* A mutant of down_revision: the payload script revises the initial script
\* and the index script revises the payload script.
down_revision_payload_first(rev) ==
    CASE rev = "b2be44556bf2" -> None
      [] rev = "add_payload_column" -> Some("b2be44556bf2")
      [] rev = "add_todo_indexes" -> Some("add_payload_column")

\* down_revision of each script.
down_revision(rev) ==
    CASE rev = "b2be44556bf2" -> None
      [] rev = "add_todo_indexes" -> Some("b2be44556bf2")
      [] rev = "add_payload_column" -> Some("add_todo_indexes")

\* script.get_current_head(): the revision that no script revises.
HeadRevision == CHOOSE r \in Revisions : \A q \in Revisions : down_revision(q) # Some(r)

\* The script that revises the current revision: the next one upgrade runs.
NextRevision(current_rev) == CHOOSE r \in Revisions : down_revision(r) = current_rev

\* The indexes add_todo_indexes creates.
TodoIndexes ==
    {"idx_todos_completed", "idx_todos_priority", "idx_todos_created_at",
     "idx_todos_completed_priority"}

\* Every object the three scripts create.
SchemaObjects == {"todos", "todos.payload"} \cup TodoIndexes

\* The objects a script creates.
ObjectsOf(rev) ==
    CASE rev = "b2be44556bf2" -> {"todos"}
      [] rev = "add_todo_indexes" -> TodoIndexes
      [] rev = "add_payload_column" -> {"todos.payload"}

\* The scripts applied when the database is at a revision.
RECURSIVE AppliedAt(_)
AppliedAt(current_rev) ==
    IF current_rev = None THEN {}
    ELSE {current_rev[1]} \cup AppliedAt(down_revision(current_rev[1]))

\* The repository's SQL names every column of todos, payload included.
TodosUsable(objs) == {"todos", "todos.payload"} \subseteq objs

\* b2be44556bf2 upgrade(): op.create_table('todos', ...).
initial_todos_table_upgrade(objs) ==
    IF "todos" \in objs
    THEN [ok |-> FALSE, objects |-> objs]
    ELSE [ok |-> TRUE, objects |-> objs \cup {"todos"}]

\* add_todo_indexes upgrade(): CREATE INDEX IF NOT EXISTS ... ON todos, four times.
add_todo_indexes_upgrade(objs) ==
    IF "todos" \notin objs
    THEN [ok |-> FALSE, objects |-> objs]
    ELSE [ok |-> TRUE, objects |-> objs \cup TodoIndexes]

\* add_payload_column upgrade(): op.add_column('todos', payload).
add_payload_column_upgrade(objs) ==
    IF "todos" \notin objs \/ "todos.payload" \in objs
    THEN [ok |-> FALSE, objects |-> objs]
    ELSE [ok |-> TRUE, objects |-> objs \cup {"todos.payload"}]

\* The upgrade() of a script.
upgrade(rev, objs) ==
    CASE rev = "b2be44556bf2" -> initial_todos_table_upgrade(objs)
      [] rev = "add_todo_indexes" -> add_todo_indexes_upgrade(objs)
      [] rev = "add_payload_column" -> add_payload_column_upgrade(objs)

\* A mutant of UpToDate: the comparison with the head revision never succeeds.
UpToDateNever(current_rev) == FALSE

\* run_migrations: `if current_rev == head_rev: return`.
UpToDate(current_rev) == current_rev = Some(HeadRevision)

\* No call of run_migrations yet.
NoRun ==
    [pc |-> "idle", calls |-> 0, start |-> None, applied |-> <<>>,
     upgrade_invoked |-> FALSE, connect_failed |-> FALSE,
     before |-> [version |-> None, objects |-> {}], previous |-> "idle"]

\* run_migrations up to its comparison of the current and the head revision:
\* the connection test, which may raise, then the early return or the call of
\* command.upgrade(alembic_cfg, "head").
run_migrations_check(connect_ok) ==
    /\ run.pc # "upgrading"
    /\ run.calls < MaxRuns
    /\ run' = [pc |-> IF ~connect_ok THEN "raised"
                      ELSE IF UpToDate(alembic_version) THEN "returned"
                      ELSE "upgrading",
               calls |-> run.calls + 1,
               start |-> alembic_version,
               applied |-> <<>>,
               upgrade_invoked |-> connect_ok /\ ~UpToDate(alembic_version),
               connect_failed |-> ~connect_ok,
               before |-> [version |-> alembic_version, objects |-> db_objects],
               previous |-> run.pc]
    /\ UNCHANGED <<backend, call, disk, elapsed, inflight, sessions, lifeVars, db_ready, engineVars, dbVars,
                   resp, alembic_version, db_objects>>

\* command.upgrade, one script at a time (alembic/env.py run_migrations_online):
\* the next script's upgrade() and the alembic_version row, until no script is
\* pending.  When a script raises, PostgreSQL rolls back the one transaction
\* around all scripts; SQLite's DDL is not transactional and the scripts
\* applied before stay.
command_upgrade_step ==
    /\ run.pc = "upgrading"
    /\ IF alembic_version = Some(HeadRevision)
       THEN /\ run' = [run EXCEPT !.pc = "returned"]
            /\ UNCHANGED <<alembic_version, db_objects>>
       ELSE LET rev == NextRevision(alembic_version)
                result == upgrade(rev, db_objects)
            IN  IF result.ok
                THEN /\ db_objects' = result.objects
                     /\ alembic_version' = Some(rev)
                     /\ run' = [run EXCEPT !.applied = Append(@, rev)]
                ELSE /\ run' = [run EXCEPT !.pc = "raised"]
                     /\ IF backend = "postgresql"
                        THEN /\ db_objects' = run.before.objects
                             /\ alembic_version' = run.before.version
                        ELSE UNCHANGED <<alembic_version, db_objects>>
    /\ db_ready' = TodosUsable(db_objects')
    /\ UNCHANGED <<backend, call, disk, elapsed, inflight, sessions, lifeVars, engineVars, dbVars, resp>>

\* init_database: run_migrations in the executor.
init_database_runs(connect_ok) ==
    /\ migration = "running"
    /\ run.calls = 0
    /\ run_migrations_check(connect_ok)

\* ------------------------------------------------------ lifespan, db_init
\* A mutant of lifespan_startup: the application serves while init_database
\* is still running.
lifespan_startup_not_awaited ==
    /\ phase = "created"
    /\ phase' = "serving"
    /\ init_calls' = init_calls + 1
    /\ migration' = "running"
    /\ UNCHANGED <<backend, call, disk, elapsed, inflight, schemaVars, sessions, db_ready, engineVars, dbVars, resp>>

\* lifespan, entered: `await init_database()` starts run_migrations.
lifespan_startup ==
    /\ phase = "created"
    /\ phase' = "starting"
    /\ init_calls' = init_calls + 1
    /\ migration' = "running"
    /\ UNCHANGED <<backend, call, disk, elapsed, inflight, schemaVars, sessions, db_ready, engineVars, dbVars, resp>>

\* A mutant of init_database_returns: the lifespan re-raises the error of
\* init_database and the application does not start.
init_database_returns_reraised(ok) ==
    /\ migration = "running"
    /\ run.pc \in {"returned", "raised"}
    /\ ok = (run.pc = "returned")
    /\ migration' = IF ok THEN "done" ELSE "failed"
    /\ phase' = IF ok THEN "serving" ELSE "stopped"
    /\ UNCHANGED <<backend, call, disk, elapsed, inflight, schemaVars, sessions, init_calls, db_ready, engineVars, dbVars, resp>>

\* init_database returns or raises; the lifespan logs the error and yields.
init_database_returns(ok) ==
    /\ migration = "running"
    /\ run.pc \in {"returned", "raised"}
    /\ ok = (run.pc = "returned")
    /\ migration' = IF ok THEN "done" ELSE "failed"
    /\ phase' = "serving"
    /\ UNCHANGED <<backend, call, disk, elapsed, inflight, schemaVars, sessions, init_calls, db_ready, engineVars, dbVars, resp>>

\* lifespan, after the yield: close_async_engine().
lifespan_shutdown ==
    /\ phase = "serving"
    /\ migration # "running"
    /\ phase' = "stopped"
    /\ close_async_engine
    /\ UNCHANGED <<backend, call, disk, elapsed, inflight, schemaVars, sessions, init_calls, migration, db_ready, provider_called, dbVars, resp>>

\* ------------------------------------------------------------ specification
Init ==
    /\ backend \in Backends
    /\ phase = "created"
    /\ init_calls = 0
    /\ migration = "none"
    /\ db_ready = FALSE
    /\ async_engine = None
    /\ async_session_factory = None
    /\ engines_created = 0
    /\ built_since_close = 0
    /\ provider_called = FALSE
    /\ sessions = [t \in Tasks |-> None]
    /\ todos = <<>>
    /\ seq = 0
    /\ clock = 0
    /\ deleted = {}
    /\ resp = NoResp
    /\ alembic_version = None
    /\ db_objects = {}
    /\ run = NoRun
    /\ elapsed = TypicalMeasurement
    /\ inflight = [t \in Tasks |-> Idle]
    /\ call = NoCall
    /\ disk = InitialDisk

\* The service on a database and a configuration that raise nothing of their
\* own: a request fails only when the startup migration failed.
Next ==
    \/ lifespan_startup
    \/ \E connect_ok \in BOOLEAN : init_database_runs(connect_ok)
    \/ command_upgrade_step
    \/ \E ok \in BOOLEAN : init_database_returns(ok)
    \/ lifespan_shutdown
    \/ \E body \in CreateBodies : create_todo_endpoint(body, "none")
    \/ \E id \in TodoIds : get_todo_endpoint(id, "none")
    \/ \E id \in TodoIds, body \in UpdateBodies : update_todo_endpoint(id, body, "none")
    \/ \E id \in TodoIds : delete_todo_endpoint(id, "none")
    \/ \E q \in ListQueries : list_todos_endpoint(q, "none")
    \/ test_select_one_endpoint("none")
    \/ healthcheck
    \/ list_files

Spec == Init /\ [][Next]_vars

\* The service with a repository call that may raise at each of its steps, on
\* a database that may hold the schema before the process starts.
InitFaults ==
    /\ backend \in Backends
    /\ phase = "created"
    /\ init_calls = 0
    /\ migration = "none"
    /\ db_ready \in BOOLEAN
    /\ async_engine = None
    /\ async_session_factory = None
    /\ engines_created = 0
    /\ built_since_close = 0
    /\ provider_called = FALSE
    /\ sessions = [t \in Tasks |-> None]
    /\ todos = <<>>
    /\ seq = 0
    /\ clock = 0
    /\ deleted = {}
    /\ resp = NoResp
    /\ alembic_version = IF db_ready THEN Some(HeadRevision) ELSE None
    /\ db_objects = IF db_ready THEN SchemaObjects ELSE {}
    /\ run = NoRun
    /\ elapsed = TypicalMeasurement
    /\ inflight = [t \in Tasks |-> Idle]
    /\ call = NoCall
    /\ disk = InitialDisk

NextFaults ==
    \/ lifespan_startup
    \/ \E connect_ok \in BOOLEAN : init_database_runs(connect_ok)
    \/ command_upgrade_step
    \/ \E ok \in BOOLEAN : init_database_returns(ok)
    \/ lifespan_shutdown
    \/ \E body \in FaultCreateBodies, fault \in Faults : create_todo_endpoint(body, fault)
    \/ \E id \in TodoIds, fault \in Faults : get_todo_endpoint(id, fault)
    \/ \E id \in TodoIds, body \in FaultUpdateBodies, fault \in Faults :
           update_todo_endpoint(id, body, fault)
    \/ \E id \in TodoIds, fault \in Faults : delete_todo_endpoint(id, fault)
    \/ \E q \in FaultListQueries, fault \in Faults : list_todos_endpoint(q, fault)
    \/ \E fault \in Faults : test_select_one_endpoint(fault)
    \/ healthcheck
    \/ list_files

SpecFaults == InitFaults /\ [][NextFaults]_vars

\* ------------------------------------------- the session provider on its own
\* The functions of utils/db_connection called in any order by concurrent
\* tasks; the service's state stays as constructed.
ProviderCall(op, engine, raised) ==
    [NoResp EXCEPT !.op = op, !.engine = engine,
                   !.raised = IF raised THEN Some(ConfigError) ELSE None]

serviceVars == <<backend, call, disk, elapsed, inflight, schemaVars, lifeVars, db_ready, dbVars>>

\* A call of get_async_engine().
call_get_async_engine(ok) ==
    /\ async_engine = None => engines_created < MaxEngines
    /\ async_engine # None => ok
    /\ get_async_engine(ok)
    /\ provider_called' = TRUE
    /\ resp' = ProviderCall("get_async_engine", async_engine', async_engine = None /\ ~ok)
    /\ UNCHANGED <<serviceVars, sessions>>

\* A task enters `async with get_async_session() as session`.
session_enter(task, ok) ==
    /\ sessions[task] = None
    /\ async_engine = None => engines_created < MaxEngines
    /\ async_session_factory # None => ok
    /\ SessionEnter(ok)
    /\ sessions' = IF EnterRaises(ok) THEN sessions
                   ELSE [sessions EXCEPT ![task] = async_session_factory']
    /\ resp' = ProviderCall("get_async_session", async_session_factory', EnterRaises(ok))
    /\ UNCHANGED serviceVars

\* The task leaves the block: commit, or rollback when the body raised.
session_exit(task, body_ok) ==
    /\ sessions[task] # None
    /\ sessions' = [sessions EXCEPT ![task] = None]
    /\ resp' = [NoResp EXCEPT !.op = IF body_ok THEN "commit" ELSE "rollback",
                              !.engine = sessions[task]]
    /\ UNCHANGED <<serviceVars, engineVars>>

\* A call of close_async_engine().
call_close_async_engine ==
    /\ close_async_engine
    /\ resp' = [NoResp EXCEPT !.op = "close_async_engine", !.engine = async_engine]
    /\ UNCHANGED <<serviceVars, provider_called, sessions>>

NextEngine ==
    \/ \E ok \in BOOLEAN : call_get_async_engine(ok)
    \/ \E task \in Tasks, ok \in BOOLEAN : session_enter(task, ok)
    \/ \E task \in Tasks, body_ok \in BOOLEAN : session_exit(task, body_ok)
    \/ call_close_async_engine

SpecEngine == Init /\ [][NextEngine]_vars

\* ------------------------------------------ the migration runner on its own
\* The databases run_migrations can find: at each revision the objects of
\* the applied scripts exist; further objects may exist already (a restored
\* or hand-made schema); indexes and the payload column need the table.
DatabaseStates ==
    {d \in [version : {None} \cup {Some(r) : r \in Revisions},
            objects : SUBSET SchemaObjects] :
        /\ d.objects # {} => "todos" \in d.objects
        /\ \A r \in AppliedAt(d.version) : ObjectsOf(r) \subseteq d.objects}

InitMigrate ==
    /\ backend \in Backends
    /\ phase = "created"
    /\ init_calls = 0
    /\ migration = "none"
    /\ \E d \in DatabaseStates :
        /\ alembic_version = d.version
        /\ db_objects = d.objects
        /\ db_ready = TodosUsable(d.objects)
    /\ run = NoRun
    /\ elapsed = TypicalMeasurement
    /\ inflight = [t \in Tasks |-> Idle]
    /\ call = NoCall
    /\ disk = InitialDisk
    /\ async_engine = None
    /\ async_session_factory = None
    /\ engines_created = 0
    /\ built_since_close = 0
    /\ provider_called = FALSE
    /\ sessions = [t \in Tasks |-> None]
    /\ todos = <<>>
    /\ seq = 0
    /\ clock = 0
    /\ deleted = {}
    /\ resp = NoResp

\* run_migrations called directly, one call after the other.
NextMigrate ==
    \/ \E connect_ok \in BOOLEAN : run_migrations_check(connect_ok)
    \/ command_upgrade_step

SpecMigrate == InitMigrate /\ [][NextMigrate]_vars

\* ------------------------------------------------- the service and its timer
\* The service on a database that raises nothing, with each of the
\* measurements the timer can make.
InitTiming ==
    /\ backend \in Backends
    /\ phase = "created"
    /\ init_calls = 0
    /\ migration = "none"
    /\ db_ready = FALSE
    /\ async_engine = None
    /\ async_session_factory = None
    /\ engines_created = 0
    /\ built_since_close = 0
    /\ provider_called = FALSE
    /\ sessions = [t \in Tasks |-> None]
    /\ todos = <<>>
    /\ seq = 0
    /\ clock = 0
    /\ deleted = {}
    /\ resp = NoResp
    /\ alembic_version = None
    /\ db_objects = {}
    /\ run = NoRun
    /\ elapsed \in Measurements
    /\ inflight = [t \in Tasks |-> Idle]
    /\ call = NoCall
    /\ disk = InitialDisk

NextTiming ==
    \/ lifespan_startup
    \/ \E connect_ok \in BOOLEAN : init_database_runs(connect_ok)
    \/ command_upgrade_step
    \/ \E ok \in BOOLEAN : init_database_returns(ok)
    \/ lifespan_shutdown
    \/ \E body \in FaultCreateBodies : create_todo_endpoint(body, "none")
    \/ \E id \in TodoIds : get_todo_endpoint(id, "none")
    \/ \E id \in TodoIds, body \in FaultUpdateBodies : update_todo_endpoint(id, body, "none")
    \/ \E id \in TodoIds : delete_todo_endpoint(id, "none")
    \/ \E q \in FaultListQueries : list_todos_endpoint(q, "none")
    \/ test_select_one_endpoint("none")
    \/ healthcheck
    \/ list_files

SpecTiming == InitTiming /\ [][NextTiming]_vars

\* ------------------------------------------------------- concurrent requests
\* POST and PUT requests handled by concurrent tasks of the event loop.  Each
\* handler awaits three times: entering the session, executing its one
\* statement, and the commit on leaving the session; other tasks run in
\* between.
ConcurrentCreateBodies ==
    {[BaseCreate EXCEPT !.title = TitlePadded, !.payload = Some(PayloadOne)],
     [BaseCreate EXCEPT !.title = TitleB, !.payload = Some(PayloadTwo)]}

\* Bodies that supply title, priority and completed.
ConcurrentUpdateBodies ==
    {[BaseUpdate EXCEPT !.title = Some(TitlePaddedB), !.priority = Some(PriorityMin),
                        !.completed = Some(TRUE)],
     [BaseUpdate EXCEPT !.title = Some(TitleA), !.priority = Some(PriorityMax),
                        !.completed = Some(FALSE)]}

\* What a statement holds from its execution to the end of its transaction.
\* SQLite: the engine's one pooled connection (pool_size 1, max_overflow 0).
\* PostgreSQL: the lock of the row an UPDATE changes.
Resource(op, id) ==
    IF backend = "sqlite" THEN Some(<<"connection", 0>>)
    ELSE IF op = "update" /\ id \in DOMAIN todos THEN Some(<<"row", id>>)
    ELSE None

\* Another task holds the resource: the statement waits.
Blocked(t, res) == res # None /\ \E u \in Tasks \ {t} : inflight[u].holds = res

\* The handler up to its first await: `async with get_async_session()`.  A
\* run handles as many requests as it has clock readings, and as many creates
\* as it has ids.
request_begins(t, op, id, body) ==
    /\ phase = "serving"
    /\ inflight[t].pc \in {"idle", "done"}
    /\ clock + Cardinality({u \in Tasks : inflight[u].pc = "entered"}) < MaxTime
    /\ op = "create" =>
           /\ id = 0 /\ body \in ConcurrentCreateBodies
           /\ NextId + Cardinality({u \in Tasks : inflight[u].op = "create"
                                       /\ inflight[u].pc \in {"entered", "executed"}})
                  <= MaxId
    /\ op = "update" => id \in TodoIds /\ body \in ConcurrentUpdateBodies \cup {BaseUpdate}
    /\ SessionEnter(TRUE)
    /\ sessions' = [sessions EXCEPT ![t] = async_session_factory']
    /\ inflight' =
        [u \in Tasks |->
            IF u = t
            THEN [pc |-> "entered", op |-> op, id |-> id, body |-> Some(body),
                  row |-> None, status |-> 0, holds |-> None, peak |-> 1,
                  existed |-> id \in DOMAIN todos,
                  concurrent |-> \E v \in Tasks \ {t} :
                                    inflight[v].pc \in {"entered", "executed"}]
            ELSE IF inflight[u].pc \in {"entered", "executed"}
                 THEN [inflight[u] EXCEPT !.concurrent = TRUE]
                 ELSE inflight[u]]
    /\ UNCHANGED <<backend, call, disk, elapsed, schemaVars, lifeVars, db_ready, dbVars, resp>>

\* `await session.execute(stmt)`: INSERT ... RETURNING or UPDATE ... RETURNING
\* in the task's own transaction; the row is visible to others at the commit.
\* An update_todo whose update_values is empty executes no statement of its
\* own: it calls get_todo, which opens a second session, reads the row on that
\* session's connection and releases it before update_todo goes on.
statement_executes(t) ==
    /\ inflight[t].pc = "entered"
    /\ ~Blocked(t, Resource(inflight[t].op, inflight[t].id))
    /\ clock < MaxTime
    /\ clock' = clock + 1
    /\ LET r == inflight[t]
           res == Resource(r.op, r.id)
       IN  IF r.op = "create"
           THEN /\ NextId <= MaxId
                /\ LET taken == NextId \in DOMAIN todos
                                \/ \E u \in Tasks \ {t} :
                                       /\ inflight[u].pc = "executed"
                                       /\ inflight[u].op = "create"
                                       /\ inflight[u].row[1].id = NextId
                   IN  inflight' = [inflight EXCEPT ![t] =
                           [r EXCEPT !.pc = "executed",
                                     !.row = Some(InsertedRow(TodoCreate(r.body[1]),
                                                              NextId, clock)),
                                     !.status = IF taken THEN 500 ELSE 201,
                                     !.holds = res]]
                /\ seq' = IF backend = "postgresql" THEN seq + 1 ELSE seq
           ELSE /\ inflight' = [inflight EXCEPT ![t] =
                       IF DOMAIN UpdateValues(TodoUpdate(r.body[1]), clock) = {}
                       THEN [r EXCEPT !.pc = "executed",
                                      !.row = IF r.id \in DOMAIN todos
                                              THEN Some(todos[r.id]) ELSE None,
                                      !.status = IF r.id \in DOMAIN todos
                                                 THEN 200 ELSE 404,
                                      !.peak = 2]
                       ELSE IF r.id \in DOMAIN todos
                       THEN [r EXCEPT !.pc = "executed",
                                      !.row = Some(UpdatedRow(todos[r.id],
                                                   UpdateValues(TodoUpdate(r.body[1]),
                                                                clock))),
                                      !.status = 200,
                                      !.holds = res]
                       ELSE [r EXCEPT !.pc = "executed", !.status = 404, !.holds = res]]
                /\ UNCHANGED seq
    /\ UNCHANGED <<backend, call, disk, elapsed, schemaVars, sessions, lifeVars, db_ready, engineVars,
                   todos, deleted, resp>>

\* Leaving the session: the commit (the rollback, when the statement raised)
\* and the response.
session_commits(t) ==
    /\ inflight[t].pc = "executed"
    /\ LET r == inflight[t]
       IN  /\ todos' = IF r.status = 201 THEN todos @@ (r.row[1].id :> r.row[1])
                       ELSE IF r.status = 200 THEN [todos EXCEPT ![r.id] = r.row[1]]
                       ELSE todos
           /\ inflight' = [inflight EXCEPT ![t] = [r EXCEPT !.pc = "done", !.holds = None]]
    /\ sessions' = [sessions EXCEPT ![t] = None]
    /\ UNCHANGED <<backend, call, disk, elapsed, schemaVars, lifeVars, db_ready, engineVars, seq, clock,
                   deleted, resp>>

\* The application is serving on a migrated, empty database.
InitConcurrent ==
    /\ backend \in Backends
    /\ phase = "serving"
    /\ init_calls = 1
    /\ migration = "done"
    /\ db_ready = TRUE
    /\ async_engine = None
    /\ async_session_factory = None
    /\ engines_created = 0
    /\ built_since_close = 0
    /\ provider_called = FALSE
    /\ sessions = [t \in Tasks |-> None]
    /\ todos = <<>>
    /\ seq = 0
    /\ clock = 0
    /\ deleted = {}
    /\ resp = NoResp
    /\ alembic_version = Some(HeadRevision)
    /\ db_objects = SchemaObjects
    /\ run = [NoRun EXCEPT !.pc = "returned", !.calls = 1, !.upgrade_invoked = TRUE,
                           !.applied = <<"b2be44556bf2", "add_todo_indexes",
                                         "add_payload_column">>]
    /\ elapsed = TypicalMeasurement
    /\ inflight = [t \in Tasks |-> Idle]
    /\ call = NoCall
    /\ disk = InitialDisk

NextConcurrent ==
    \/ \E t \in Tasks, body \in ConcurrentCreateBodies : request_begins(t, "create", 0, body)
    \/ \E t \in Tasks, id \in TodoIds, body \in ConcurrentUpdateBodies :
           request_begins(t, "update", id, body)
    \/ \E t \in Tasks : statement_executes(t)
    \/ \E t \in Tasks : session_commits(t)

SpecConcurrent == InitConcurrent /\ [][NextConcurrent]_vars

\* ------------------------------------------------ the connection pool in use
\* Creates and updates, an update without fields among them, by concurrent
\* tasks.  The event loop runs every task that can go on: a statement whose
\* resource is free is executed, and a session that has executed is left.
PoolUpdateBodies ==
    {BaseUpdate,
     [BaseUpdate EXCEPT !.title = Some(TitleA), !.priority = Some(PriorityMax),
                        !.completed = Some(FALSE)]}

NextPool ==
    \/ \E t \in Tasks :
           request_begins(t, "create", 0,
                          [BaseCreate EXCEPT !.title = TitleB, !.payload = Some(PayloadTwo)])
    \/ \E t \in Tasks, id \in TodoIds, body \in PoolUpdateBodies :
           request_begins(t, "update", id, body)
    \/ \E t \in Tasks : statement_executes(t)
    \/ \E t \in Tasks : session_commits(t)

SpecPool ==
    /\ InitConcurrent
    /\ [][NextPool]_vars
    /\ \A t \in Tasks : WF_vars(statement_executes(t)) /\ WF_vars(session_commits(t))

\* ------------------------------------------ the configuration functions alone
\* detect_backend_type and get_database_config applied to configs and
\* environments; the service's state stays as constructed.
configFrame ==
    <<backend, disk, elapsed, inflight, schemaVars, lifeVars, db_ready, dbVars, engineVars,
      sessions, resp>>

\* A call of detect_backend_type(config).  The functions keep no state: a
\* behaviour holds one call.
call_detect_backend_type(config) ==
    /\ call = NoCall
    /\ call' = [fn |-> "detect_backend_type", input |-> config,
                result |-> detect_backend_type(config)]
    /\ UNCHANGED configFrame

\* A call of utils/database_config.get_database_config().
call_get_database_config(env, yaml) ==
    /\ call = NoCall
    /\ call' = [fn |-> "get_database_config", input |-> [env |-> env, yaml |-> yaml],
                result |-> get_database_config(env, yaml)]
    /\ UNCHANGED configFrame

\* A call of database_config.get_database_config().
call_legacy_get_database_config(env, yaml) ==
    /\ call = NoCall
    /\ call' = [fn |-> "legacy_get_database_config",
                input |-> [env |-> env, yaml |-> yaml],
                result |-> legacy_get_database_config(env, yaml)]
    /\ UNCHANGED configFrame

\* A call of utils/database_config.get_backend_type().
call_get_backend_type(env, yaml) ==
    /\ call = NoCall
    /\ call' = [fn |-> "get_backend_type", input |-> [env |-> env, yaml |-> yaml],
                result |-> get_backend_type(env, yaml)]
    /\ UNCHANGED configFrame

NextConfig ==
    \/ \E config \in DetectConfigs : call_detect_backend_type(config)
    \/ \E env \in Environments, yaml \in Yamls : call_get_database_config(env, yaml)
    \/ \E env \in Environments, yaml \in Yamls :
            call_legacy_get_database_config(env, yaml)
    \/ \E env \in Environments, yaml \in Yamls : call_get_backend_type(env, yaml)

SpecConfig == Init /\ [][NextConfig]_vars

\* ------------------------------------------- the file endpoints on their own
\* The service is serving; files are read, written and deleted in any order.
NextFiles ==
    \/ \E filename \in Filenames : read_file(filename)
    \/ \E filename \in Filenames : delete_file(filename)
    \/ \E filename \in Filenames : write_file(filename)

SpecFiles == InitConcurrent /\ [][NextFiles]_vars

\* ------------------------------------------------------------------- claims
\* A step in which the serving application handles one request.
RequestStep == phase = "serving" /\ phase' = "serving"

\* C1, as stated: a create whose repository call raises nothing is answered
\* 201 with a TODO whose title, description, priority, due_date and payload
\* equal the submitted values and whose completed flag is false, and a GET
\* answered 200 returns the stored TODO.
C1_RoundTripSubmittedTitle ==
    /\ resp.op = "create" /\ TodoCreateValid(resp.body) /\ resp.raised = None =>
         /\ resp.status = 201
         /\ resp.todo[1].title = resp.body.title
         /\ resp.todo[1].description = resp.body.description
         /\ resp.todo[1].priority = resp.body.priority
         /\ resp.todo[1].due_date = resp.body.due_date
         /\ resp.todo[1].payload = resp.body.payload
         /\ resp.todo[1].completed = FALSE
    /\ resp.op = "get" /\ resp.status = 200 => resp.todo = Some(todos[resp.id])

C1_Created ==
    resp.op = "create" /\ TodoCreateValid(resp.body) /\ resp.raised = None =>
        /\ resp.status = 201
        /\ resp.todo[1].title = Strip(resp.body.title)
        /\ resp.todo[1].description = resp.body.description
        /\ resp.todo[1].priority = resp.body.priority
        /\ resp.todo[1].due_date = resp.body.due_date
        /\ resp.todo[1].payload = resp.body.payload
        /\ resp.todo[1].completed = FALSE
        /\ resp.todo[1].id \in DOMAIN todos
        /\ todos[resp.todo[1].id] = resp.todo[1]

C1_Read ==
    resp.op = "get" /\ resp.status = 200 =>
        resp.id \in DOMAIN todos /\ resp.todo = Some(todos[resp.id])

\* A stored TODO changes or disappears only in a PUT or DELETE of its id.
C1_Kept ==
    \A id \in DOMAIN todos :
        (id \notin DOMAIN todos' \/ todos'[id] # todos[id]) =>
            resp'.op \in {"update", "delete"} /\ resp'.id = id

\* C1, amended: a valid create whose repository call raises nothing is
\* answered 201 with the stored TODO, whose title is the submitted title
\* stripped of leading and trailing whitespace, whose description, priority,
\* due_date and payload equal the submitted values and whose completed flag is
\* false; the TODO stays as stored until a PUT or DELETE of its id, and a GET
\* answered 200 returns the stored TODO.
C1_RoundTripStrippedTitle == [](C1_Created /\ C1_Read) /\ [][C1_Kept]_vars

\* C1 witness: a GET returns a TODO that was created from a padded title.
C1_Witness ==
    /\ resp.op = "get"
    /\ resp.status = 200
    /\ resp.todo[1].title = TitleA
    /\ resp.todo[1].completed = FALSE

\* C2, as stated: once a DELETE of an id was answered 204 no row has that id
\* again: no GET or PUT of it is answered 200 and no list result holds it.
C2_DeleteIsFinal ==
    \A id \in deleted :
        /\ id \notin DOMAIN todos
        /\ resp.op \in {"get", "update"} /\ resp.id = id => resp.status # 200
        /\ resp.op = "list" => \A k \in DOMAIN resp.items : resp.items[k].id # id

C4_NotFoundAlways404 ==
    [][RequestStep /\ resp'.op \in {"get", "update", "delete"}
         /\ resp'.id \notin DOMAIN todos /\ resp'.raised = None =>
        resp'.status = 404 /\ todos' = todos]_vars

\* C4, amended: a GET, PUT or DELETE of an id that has no row changes no row
\* and is answered 404, 422 or 500, never 200 or 204: 404 when the body (of a
\* PUT) passes validation and the repository call raises nothing, 422 when the
\* body fails validation, 500 when the repository call raises.
C4_NotFound ==
    [][RequestStep /\ resp'.op \in {"get", "update", "delete"}
         /\ resp'.id \notin DOMAIN todos =>
        /\ todos' = todos
        /\ resp'.status \in {404, 422, 500}
        /\ resp'.status = 422 <=> resp'.op = "update" /\ ~TodoUpdateValid(resp'.body)
        /\ resp'.status = 500 <=> resp'.raised # None]_vars

\* C4 witness: a valid PUT of an id that has no row was answered 404 while
\* another row exists.
C4_Witness ==
    /\ resp.op = "update"
    /\ resp.status = 404
    /\ resp.id \notin DOMAIN todos
    /\ DOMAIN todos # {}

\* C5: whenever the repository call of a TODO endpoint raises, the response
\* is 500 with a detail that holds the exception's message, nothing escapes
\* the handler, and no row is written, changed or removed.
C5_FailuresAre500 ==
    [][RequestStep /\ resp'.raised # None =>
        /\ resp'.status = 500
        /\ Len(resp'.detail) = 2
        /\ resp'.detail[2] = resp'.raised[1].msg
        /\ ~resp'.escaped
        /\ todos' = todos]_vars

\* C5 witness: the commit of a create raised after its INSERT had run, and a
\* row written earlier is still stored.
C5_Witness ==
    /\ resp.op = "create"
    /\ resp.raised = Some(CommitError)
    /\ resp.status = 500
    /\ DOMAIN todos # {}

C6_Stored ==
    \A id \in DOMAIN todos :
        /\ todos[id].priority \in PriorityMin..PriorityMax
        /\ Len(todos[id].title) >= 1
        /\ Len(todos[id].title) <= TitleMaxLength
        /\ todos[id].title[1] \notin Whitespace
        /\ todos[id].title[Len(todos[id].title)] \notin Whitespace

BlankTitle(t) == \A i \in DOMAIN t : t[i] \in Whitespace

C6_Rejected ==
    /\ resp.op = "create" /\ (resp.body.priority \notin PriorityMin..PriorityMax
                              \/ BlankTitle(resp.body.title)) => resp.status = 422
    /\ resp.op = "update" /\ resp.body.priority # None
         /\ resp.body.priority[1] \notin PriorityMin..PriorityMax => resp.status = 422
    /\ resp.op = "update" /\ resp.body.title # None /\ BlankTitle(resp.body.title[1]) =>
         resp.status = 422

\* A request answered 422 reaches no repository function: no session is
\* entered, no clock is read, no row changes.
C6_RejectedEarly ==
    RequestStep /\ resp'.status = 422 =>
        /\ todos' = todos
        /\ UNCHANGED <<engineVars, seq, clock>>
        /\ resp'.engine = None

\* C6: every stored TODO has a priority in 0..4 and a title that is not
\* empty, has at most 255 characters and neither starts nor ends with
\* whitespace; a create or update whose priority is outside 0..4 or whose
\* title is empty or all whitespace is answered 422 before the repository is
\* called and changes no row.
C6_Validation == [](C6_Stored /\ C6_Rejected) /\ [][C6_RejectedEarly]_vars

\* C6 witness: a PUT with a whitespace-only title was answered 422 while the
\* longest-titled TODO is stored.
C6_Witness ==
    /\ resp.op = "update"
    /\ resp.status = 422
    /\ resp.body.title = Some(TitleBlank)
    /\ \E id \in DOMAIN todos : Len(todos[id].title) = TitleMaxLength - 1

\* C7: a list answered 200 holds exactly the stored TODOs that match every
\* supplied filter, each once (all of them when no filter is supplied), and a
\* TODO just updated to priority p is in every list filtered by priority p.
C7_ListFiltering ==
    /\ resp.op = "list" /\ resp.status = 200 =>
         /\ {resp.items[k] : k \in DOMAIN resp.items} =
                {todos[i] : i \in {j \in DOMAIN todos :
                    /\ resp.body.completed \in {None, Some(todos[j].completed)}
                    /\ resp.body.priority \in {None, Some(todos[j].priority)}}}
         /\ \A k, l \in DOMAIN resp.items : k # l => resp.items[k].id # resp.items[l].id
    /\ resp.op = "update" /\ resp.status = 200 /\ resp.body.priority # None =>
         \A items \in ListResults([completed |-> None, priority |-> resp.body.priority]) :
             \E k \in DOMAIN items : items[k].id = resp.id

\* C7 witness: a list filtered by completed=true returned one of two stored TODOs.
C7_Witness ==
    /\ resp.op = "list"
    /\ resp.status = 200
    /\ resp.body.completed = Some(TRUE)
    /\ Len(resp.items) = 1
    /\ Cardinality(DOMAIN todos) = 2

\* C8, as stated: a list answered 200 is in non-increasing created_at order
\* and the first element of an unfiltered list is the most recently created
\* TODO that still exists (on both backends the stored TODO with the largest
\* id, as an insert takes an id above every id in the table).
C8_NewestFirst ==
    resp.op = "list" /\ resp.status = 200 =>
        /\ \A k, l \in DOMAIN resp.items :
               k < l => resp.items[k].created_at >= resp.items[l].created_at
        /\ resp.body = [completed |-> None, priority |-> None] /\ resp.items # <<>> =>
               resp.items[1].id = SetMax(DOMAIN todos)

C9_State ==
    /\ ~provider_called =>
         async_engine = None /\ async_session_factory = None /\ engines_created = 0
    /\ built_since_close <= 1
    /\ resp.op \in {"get_async_engine", "get_async_session"} /\ resp.raised = None =>
         resp.engine # None /\ resp.engine = async_engine

\* With an engine in place, every call but close_async_engine leaves the
\* engine and the session factory as they are and constructs nothing.
C9_SameEngine ==
    async_engine # None /\ resp'.op # "close_async_engine" =>
        /\ async_engine' = async_engine
        /\ async_session_factory' = async_session_factory
        /\ engines_created' = engines_created

\* C9: no engine exists before the first call of get_async_engine or
\* get_async_session; between two calls of close_async_engine the engine and
\* the session factory are constructed at most once, and every call that
\* returns uses that one engine.
C9_LazyEngine == []C9_State /\ [][C9_SameEngine]_vars

\* C9 witness: after a close and a second construction two tasks hold
\* sessions of the same, second engine.
C9_Witness ==
    /\ engines_created = 2
    /\ built_since_close = 1
    /\ resp.op = "get_async_session"
    /\ \A t \in Tasks : sessions[t] = Some(2)

C10_State ==
    /\ init_calls <= 1
    /\ phase \in {"serving", "stopped"} => init_calls = 1 /\ migration \in {"done", "failed"}
    /\ resp.op # "none" => migration \in {"done", "failed"}

\* init_database is invoked by the lifespan's startup alone, and no request
\* touches the migration.
C10_Step ==
    /\ init_calls' # init_calls => phase = "created" /\ phase' = "starting"
    /\ RequestStep => init_calls' = init_calls /\ migration' = migration

\* C10: init_database is invoked exactly once in the life of the process,
\* during lifespan startup; it has returned or raised before the first
\* request is handled, and no request handler invokes it.
C10_MigrateOnceBeforeServing == []C10_State /\ [][C10_Step]_vars

\* C10 witness: a create was answered 201 after the one migration succeeded.
C10_Witness ==
    /\ resp.op = "create"
    /\ resp.status = 201
    /\ migration = "done"
    /\ init_calls = 1

\* C11: run_migrations is safe to repeat.  A call that finds the database at
\* the head revision add_payload_column returns without invoking the upgrade
\* command and leaves the schema and the alembic_version row as they were; a
\* call that follows a call that returned invokes no upgrade and leaves the
\* database as the first call left it.
C11_AtHead ==
    run'.calls = run.calls + 1 /\ ~run'.connect_failed
        /\ alembic_version = Some("add_payload_column") =>
            /\ run'.pc = "returned"
            /\ ~run'.upgrade_invoked
            /\ alembic_version' = alembic_version
            /\ db_objects' = db_objects

C11_Twice ==
    run.calls >= 2 /\ run.previous = "returned" =>
        /\ ~run.upgrade_invoked
        /\ alembic_version = run.before.version
        /\ db_objects = run.before.objects

C11_RepeatSafe == [][C11_AtHead]_vars /\ []C11_Twice

\* C11 witness: a second call has returned after a first call that returned.
C11_Witness ==
    /\ run.calls = 2
    /\ run.previous = "returned"
    /\ run.pc = "returned"
    /\ alembic_version = Some("add_payload_column")
    /\ db_objects = SchemaObjects

\* C12: each migration script is idempotent.  The upgrade of the script that
\* run_migrations is about to apply, on a database that already holds the
\* objects it creates, succeeds and leaves the schema unchanged, and run_migrations on a database that has the todos
\* table but no alembic_version row raises only when the connection fails.
C12_ScriptsIdempotent ==
    /\ run.pc = "upgrading" /\ alembic_version # Some("add_payload_column") =>
        LET rev == NextRevision(alembic_version)
        IN  ObjectsOf(rev) \subseteq db_objects =>
                upgrade(rev, db_objects) = [ok |-> TRUE, objects |-> db_objects]
    /\ run.start = None /\ "todos" \in run.before.objects /\ run.pc = "raised" =>
        run.connect_failed

\* C13: ordered migration to head.  A call of run_migrations that returns
\* leaves the database at add_payload_column and has applied exactly the
\* scripts after the starting revision, each once, in the order b2be44556bf2,
\* add_todo_indexes, add_payload_column; a script is applied only when the
\* database is at the revision it revises.
C13_Order == <<"b2be44556bf2", "add_todo_indexes", "add_payload_column">>

C13_Position(current_rev) ==
    IF current_rev = None THEN 0
    ELSE CHOOSE i \in DOMAIN C13_Order : C13_Order[i] = current_rev[1]

C13_Returned ==
    run.pc = "returned" =>
        /\ alembic_version = Some("add_payload_column")
        /\ run.applied = SubSeq(C13_Order, C13_Position(run.start) + 1, Len(C13_Order))

C13_Applies ==
    Len(run'.applied) > Len(run.applied) =>
        /\ Len(run'.applied) = Len(run.applied) + 1
        /\ LET i == C13_Position(alembic_version) + 1
           IN  /\ i \in DOMAIN C13_Order
               /\ run'.applied[Len(run'.applied)] = C13_Order[i]
               /\ alembic_version' = Some(C13_Order[i])

C13_OrderedToHead == []C13_Returned /\ [][C13_Applies]_vars

\* C13 witness: a call on a database without a revision has returned after
\* applying the three scripts.
C13_Witness ==
    /\ run.pc = "returned"
    /\ run.start = None
    /\ run.applied = C13_Order
    /\ alembic_version = Some("add_payload_column")

\* The endpoints that call the repository.
TodoOps == {"create", "get", "update", "delete", "list"}

\* C14: startup tolerates a failed database initialisation.  When
\* init_database raises, the application still goes on to serve; from then on
\* every request is answered with an HTTP response, the health and file
\* endpoints with 200 and, while the todos table is unusable, every TODO
\* request that passes validation with 500.
C14_StillStarts ==
    migration = "running" /\ migration' = "failed" => phase' = "serving"

C14_Answered ==
    migration = "failed" /\ resp.op # "none" =>
        /\ phase \in {"serving", "stopped"}
        /\ ~resp.escaped
        /\ resp.status \in {200, 201, 204, 404, 422, 500}
        /\ resp.op \in {"healthcheck", "list_files"} => resp.status = 200
        /\ resp.op \in TodoOps /\ ~db_ready =>
            resp.status = IF resp.work.calls = 0 THEN 422 ELSE 500

C14_StartupTolerant == [][C14_StillStarts]_vars /\ []C14_Answered

\* C14 witness: after a failed initialisation that left no todos table, a
\* create is answered 500.
C14_Witness ==
    /\ migration = "failed"
    /\ phase = "serving"
    /\ ~db_ready
    /\ resp.op = "create"
    /\ resp.status = 500
    /\ resp.raised = Some(NoTableError)

\* C15: timing headers.  Every 2xx response of the five TODO endpoints and of
\* /api/test/select-one carries X-Timing and X-Timing-JSON; X-Timing-JSON
\* holds the seven timing fields, X-Timing contains a total= entry, and
\* total_ms equals endpoint_processing_ms.
C15_TimingHeaders ==
    resp.op \in TodoOps \cup {"select_one"} /\ resp.status \in {200, 201, 204} =>
        /\ resp.headers # None
        /\ DOMAIN resp.headers[1].x_timing_json = TimingFields
        /\ Cardinality(TimingFields) = 7
        /\ \E i \in DOMAIN resp.headers[1].x_timing : resp.headers[1].x_timing[i][1] = "total"
        /\ resp.headers[1].x_timing_json["total_ms"] =
               resp.headers[1].x_timing_json["endpoint_processing_ms"]

\* C15 witness: a delete answered 204 by a timer that measured nothing, so
\* that total= is the only entry of X-Timing.
C15_Witness ==
    /\ resp.op = "delete"
    /\ resp.status = 204
    /\ elapsed = ZeroMeasurement
    /\ resp.headers # None
    /\ Len(resp.headers[1].x_timing) = 1

C17_AllFinished(id) ==
    \A t \in Tasks :
        /\ inflight[t].pc = "done"
        /\ inflight[t].op = "update"
        /\ inflight[t].id = id
        /\ inflight[t].existed

C17_Stored(id) == <<todos[id].title, todos[id].priority, todos[id].completed>>

\* C17, as stated: when PUT requests on one existing TODO, each supplying
\* title, priority and completed, have all finished, each was answered 200
\* and the stored (title, priority, completed) is the triple one of them sent.
C17_TripleAsSent ==
    \A id \in DOMAIN todos :
        C17_AllFinished(id) =>
            /\ \A t \in Tasks : inflight[t].status = 200
            /\ \E t \in Tasks :
                   C17_Stored(id) = <<inflight[t].body[1].title[1],
                                      inflight[t].body[1].priority[1],
                                      inflight[t].body[1].completed[1]>>

\* C17, amended: ... the stored (title, priority, completed) is the triple one
\* of them sent, with its title stripped of leading and trailing whitespace;
\* fields of different requests are never mixed.
C17_TripleOfOneRequest ==
    \A id \in DOMAIN todos :
        C17_AllFinished(id) =>
            /\ \A t \in Tasks : inflight[t].status = 200
            /\ \E t \in Tasks :
                   C17_Stored(id) = <<Strip(inflight[t].body[1].title[1]),
                                      inflight[t].body[1].priority[1],
                                      inflight[t].body[1].completed[1]>>

\* C17 witness: PUT requests with different bodies on one TODO were handled
\* at the same time and have all finished.
C17_Witness ==
    /\ 1 \in DOMAIN todos
    /\ C17_AllFinished(1)
    /\ \A t \in Tasks : inflight[t].concurrent
    /\ \E t, u \in Tasks : inflight[t].body # inflight[u].body

\* C18: concurrent creates.  Every finished POST was answered 201; the ids
\* returned to different requests are distinct; each commit of a create adds
\* exactly one row, under the returned id, and the row of each request holds
\* the payload of that request.
C18_Created ==
    \A t \in Tasks :
        inflight[t].pc = "done" /\ inflight[t].op = "create" =>
            /\ inflight[t].status = 201
            /\ inflight[t].row[1].id \in DOMAIN todos
            /\ todos[inflight[t].row[1].id].payload = inflight[t].body[1].payload
            /\ \A u \in Tasks \ {t} :
                   inflight[u].pc = "done" /\ inflight[u].op = "create" =>
                       inflight[u].row[1].id # inflight[t].row[1].id

C18_OneRowEach ==
    \A t \in Tasks :
        inflight[t].op = "create" /\ inflight[t].pc = "executed" /\ inflight'[t].pc = "done" =>
            /\ inflight[t].row[1].id \notin DOMAIN todos
            /\ DOMAIN todos' = DOMAIN todos \cup {inflight[t].row[1].id}
            /\ \A i \in DOMAIN todos : todos'[i] = todos[i]

C18_ConcurrentCreates == []C18_Created /\ [][C18_OneRowEach]_vars

\* C18 witness: POST requests with different payloads were handled at the same
\* time and have all finished.
C18_Witness ==
    /\ \A t \in Tasks :
        /\ inflight[t].pc = "done"
        /\ inflight[t].op = "create"
        /\ inflight[t].concurrent
    /\ \E t, u \in Tasks : inflight[t].body # inflight[u].body
    /\ Cardinality(DOMAIN todos) = Cardinality(Tasks)

\* r is s with every upper-case letter replaced by its lower-case letter.
C19_LowerCased(r, s) ==
    /\ Len(r) = Len(s)
    /\ \A i \in DOMAIN s :
        /\ \A j \in DOMAIN UpperCase : r[i] # UpperCase[j]
        /\ \/ r[i] = s[i]
           \/ \E j \in DOMAIN UpperCase : s[i] = UpperCase[j] /\ r[i] = LowerCase[j]

\* The backends whose name the lower-cased url of config c begins with.
C19_NamedByUrl(c) ==
    {b \in {SQLITE, POSTGRESQL, MYSQL} :
        "url" \in DOMAIN c /\ startswith(lower(c["url"]), b)}

\* The database of config c looks like a file path and c has no host and no port.
C19_FilePath(c) ==
    /\ "database" \in DOMAIN c
    /\ "host" \notin DOMAIN c
    /\ "port" \notin DOMAIN c
    /\ \/ endswith(c["database"], <<".", "d", "b">>)
       \/ contains(c["database"], "/")
       \/ contains(c["database"], "\\")

C20_SameIgnoringCase(s, w) ==
    Len(s) = Len(w) /\ \A i \in DOMAIN s : LowerChar(s[i]) = LowerChar(w[i])
C20_Section(env) ==
    IF "DB_ENV" \in DOMAIN env /\ C20_SameIgnoringCase(env["DB_ENV"], Local)
    THEN "database_local"
    ELSE IF "DB_ENV" \in DOMAIN env /\ C20_SameIgnoringCase(env["DB_ENV"], SQLITE)
         THEN "database_sqlite"
    ELSE "database_databricks"

\* The latest call read the section DB_ENV selects; it raised ValueError when
\* that section is missing or empty, and what it returned comes from that
\* section and the environment alone.
C20_Selects ==
    LET env == call.input.env
        yaml == call.input.yaml
        r == call.result
        key == C20_Section(env)
    IN  /\ r.config_key = key
        /\ (key \notin DOMAIN yaml \/ DOMAIN yaml[key] = {}) =>
               /\ r.raised # None
               /\ r.raised[1].type = "ValueError"
               /\ r.db_config = EmptySection
        /\ r.raised = None =>
               /\ key \in DOMAIN yaml
               /\ \A field \in {"host", "port", "database", "user", "password"} :
                      r.db_config[field] =
                          Or(getenv(env, OverrideOf(field), <<>>), Get(yaml[key], field))

\* C20: get_database_config reads section database_local when DB_ENV is
\* 'local', database_sqlite when it is 'sqlite', and database_databricks when
\* DB_ENV is unset or has any other value, comparing DB_ENV without regard to
\* case; when the selected section is missing or empty it raises ValueError
\* and never falls back to another section.  Stated of both modules that
\* define get_database_config.
C20_SectionSelection ==
    call.fn \in {"get_database_config", "legacy_get_database_config"} => C20_Selects

\* The same statement of utils/database_config.get_database_config alone.
C20_UtilsSectionSelection ==
    call.fn = "get_database_config" => C20_Selects

\* The session of the latest TODO request: committed once and not rolled back
\* when nothing was raised; rolled back, after at most one commit, when the
\* body or the commit raised, and the caller got that exception.
C21_Session ==
    resp.op \in TodoOps \cup {"select_one"} /\ resp.session.entered =>
        /\ resp.session.reraised = resp.raised
        /\ resp.raised = None =>
               resp.session.commits = 1 /\ resp.session.rollbacks = 0
        /\ resp.raised # None =>
               /\ resp.session.rollbacks = 1
               /\ resp.session.commits = IF resp.raised = Some(CommitError) THEN 1 ELSE 0
               /\ resp.detail = <<"Database error: ", resp.raised[1].msg>>

\* A write is in the table after the request exactly when its session block
\* raised nothing.
C21_Write ==
    RequestStep /\ resp'.op \in {"create", "update", "delete"} /\ resp'.session.entered =>
        /\ resp'.raised # None => todos' = todos
        /\ resp'.raised = None /\ resp'.op = "create" =>
               \E id \in DOMAIN todos' \ DOMAIN todos :
                   /\ todos'[id] = resp'.todo[1]
                   /\ \A other \in DOMAIN todos : todos'[other] = todos[other]
        /\ resp'.raised = None /\ resp'.op = "update" /\ resp'.status = 200 =>
               todos'[resp'.id] = resp'.todo[1]
        /\ resp'.raised = None /\ resp'.op = "delete" /\ resp'.status = 204 =>
               resp'.id \in DOMAIN todos /\ resp'.id \notin DOMAIN todos'

\* C21: for every use of get_async_session, if the body finishes without an
\* exception the session is committed exactly once and not rolled back; if the
\* body or the commit raises, the session is rolled back and the same
\* exception is raised again to the caller, so a repository write is
\* persisted if and only if its session block completed without exception.
C21_CommitOrRollback == []C21_Session /\ [][C21_Write]_vars

\* C21 witness: the commit of a create raised; the session was rolled back
\* after its one commit and the table holds no new row.
C21_Witness ==
    /\ resp.op = "create"
    /\ resp.raised = Some(CommitError)
    /\ resp.session.commits = 1
    /\ resp.session.rollbacks = 1
    /\ resp.status = 500
    /\ todos = <<>>

\* C22: a PUT /api/todo/{id} whose body carries payload: null (as the edit
\* form sends for an emptied payload field) clears the payload, so the stored
\* and returned TODO has payload null afterwards.
C22_NullClearsPayload ==
    [][RequestStep /\ resp'.op = "update" /\ resp'.status = 200
         /\ "payload" \in resp'.body.sent_null =>
        /\ todos'[resp'.id].payload = None
        /\ resp'.todo[1].payload = None]_vars

\* C23: when a PUT /api/todo/{id} supplies no field to update (all fields
\* absent or null), update_todo issues no UPDATE statement and returns the
\* existing TODO with every column, updated_at included, unchanged.
C23_EmptyUpdateChangesNothing ==
    [][RequestStep /\ resp'.op = "update" /\ resp'.status = 200
         /\ (\A f \in UpdatableFields : resp'.body[f] = None) =>
        /\ todos' = todos
        /\ resp'.todo = Some(todos[resp'.id])]_vars

C25_PathOnly ==
    LET env == call.input.env
        yaml == call.input.yaml
    IN  /\ "DB_ENV" \in DOMAIN env
        /\ C20_SameIgnoringCase(env["DB_ENV"], SQLITE)
        /\ "DB_HOST" \notin DOMAIN env
        /\ "DB_PORT" \notin DOMAIN env
        /\ "database_sqlite" \in DOMAIN yaml
        /\ DOMAIN yaml["database_sqlite"] = {"database"}
        /\ endswith(yaml["database_sqlite"]["database"], <<".", "d", "b">>)

\* C25: when DB_ENV is 'sqlite' and the database_sqlite section gives only a
\* database file path (no type, host or port) and no DB_HOST/DB_PORT
\* variables are set, get_database_config succeeds and get_backend_type
\* returns 'sqlite'.
C25_SqliteByPath ==
    /\ call.fn = "get_database_config" /\ C25_PathOnly =>
           /\ call.result.raised = None
           /\ call.result.config_key = "database_sqlite"
    /\ call.fn = "get_backend_type" /\ C25_PathOnly =>
           /\ call.result.raised = None
           /\ call.result.backend_type = Some(SQLITE)

\* The path is the directory dir or lies below it.
C26_Inside(path, dir) == Len(path) >= Len(dir) /\ SubSeq(path, 1, Len(dir)) = dir

\* C26: for every filename, read_file and delete_file read or delete a file
\* only if its resolved path lies inside the files directory; a filename that
\* resolves outside that directory, for example through '..' components into
\* a sibling directory, is answered with 400 and no file is read or deleted.
C26_Confined ==
    resp.op \in {"read_file", "delete_file"} =>
        /\ resp.items # <<>> => C26_Inside(resp.items[1], FilesDir)
        /\ ~C26_Inside(resolve(JoinPath(FilesDir, resp.body)), FilesDir) =>
               resp.status = 400 /\ resp.items = <<>>

\* _async_engine is None exactly when _async_session_factory is None, and a
\* session factory is bound to the current engine.
C27_Together ==
    /\ (async_engine = None) <=> (async_session_factory = None)
    /\ async_engine # None => async_session_factory = async_engine

\* A call that raised a failed construction left both globals None; with no
\* engine, a call of get_async_engine or get_async_session attempts the
\* construction (it raises or builds an engine never seen before);
\* close_async_engine changes nothing when no engine exists and otherwise
\* resets both globals; the session of a get_async_session is bound to the
\* engine in place after the call.
C27_Calls ==
    /\ resp'.op \in {"get_async_engine", "get_async_session"} /\ resp'.raised # None =>
           /\ async_engine = None
           /\ async_engine' = None /\ async_session_factory' = None
           /\ engines_created' = engines_created
    /\ resp'.op \in {"get_async_engine", "get_async_session"} /\ async_engine = None
         /\ resp'.raised = None =>
           /\ async_engine' = Some(engines_created + 1)
           /\ engines_created' = engines_created + 1
           /\ resp'.engine = async_engine'
    /\ resp'.op = "close_async_engine" /\ async_engine = None =>
           UNCHANGED <<async_engine, async_session_factory, engines_created,
                       built_since_close>>
    /\ resp'.op = "close_async_engine" =>
           async_engine' = None /\ async_session_factory' = None
    /\ resp'.op = "get_async_session" /\ resp'.raised = None =>
           \E t \in Tasks : sessions[t] = None /\ sessions'[t] = async_engine'

\* C27: in every state reachable by any sequence of get_async_engine,
\* get_async_session, close_async_engine and failed engine constructions,
\* _async_engine is None exactly when _async_session_factory is None; a failed
\* construction leaves both None so the next call attempts construction
\* again, close_async_engine is a no-op when no engine exists, and a
\* get_async_session after a close builds a fresh engine.
C27_EngineLifecycle == []C27_Together /\ [][C27_Calls]_vars

\* C27 witness: after a construction, a close and a second construction by
\* get_async_session, a task holds a session of the second engine while
\* another still holds one of the first.
C27_Witness ==
    /\ engines_created = 2
    /\ async_engine = Some(2)
    /\ resp.op = "get_async_session"
    /\ resp.raised = None
    /\ \E t, u \in Tasks : sessions[t] = Some(1) /\ sessions[u] = Some(2)

\* A request has at most one session open at any time; it holds a connection
\* (on SQLite, the pool's only one) only after its statement was executed on
\* its one session, so a request that waits to execute holds nothing; the
\* pool's one connection is held by at most one request.
C28_OneSession ==
    /\ \A t \in Tasks :
        /\ inflight[t].peak <= 1
        /\ inflight[t].holds # None => inflight[t].pc = "executed" /\ sessions[t] # None
        /\ inflight[t].pc \in {"idle", "done"} => sessions[t] = None
    /\ backend = "sqlite" =>
           Cardinality({t \in Tasks : inflight[t].holds = Some(<<"connection", 0>>)}) <= 1

\* C28: no repository function acquires a second session while it still holds
\* one, so at every moment each in-flight request holds at most one pooled
\* connection and, with the SQLite pool (pool_size 1, max_overflow 0), a
\* request never waits for a connection that it holds itself; every request
\* eventually releases its connection.
C28_NoSelfDeadlock ==
    /\ []C28_OneSession
    /\ \A t \in Tasks :
           (inflight[t].pc \in {"entered", "executed"}) ~>
               (inflight[t].pc = "done" /\ inflight[t].holds = None /\ sessions[t] = None)

\* C28 witness: on SQLite an update without fields has finished while the
\* other task, whose statement has been executed, holds the connection.
C28_Witness ==
    /\ backend = "sqlite"
    /\ \E t, u \in Tasks :
        /\ inflight[t].pc = "done"
        /\ inflight[t].op = "update"
        /\ inflight[t].status = 200
        /\ \A f \in UpdatableFields : inflight[t].body[1][f] = None
        /\ inflight[u].holds = Some(<<"connection", 0>>)

====
